---- MODULE Spec2Model ----
(***************************************************************************)
(* Slab hash table of Open3D (src/Open3D/Core/Hashmap/HashmapCUDA.h).      *)
(* A batch (Insert, Search or Remove) is one kernel launch; its warps      *)
(* ("groups") run the warp-cooperative loops of HashmapCUDAContext and     *)
(* interleave at the granularity of their accesses to global memory.       *)
(* Batches are serialised by the host (cudaDeviceSynchronize).             *)
(***************************************************************************)
EXTENDS Integers, Sequences, FiniteSets, TLC

(***************************************************************************)
(* Bounds of the model.                                                    *)
(***************************************************************************)
\* Width of a warp; a slab has WARP_WIDTH - 1 pair slots and one next slot.
\* The source uses 32 (Slab: 31 pair slots and next_slab_ptr).
WARP_WIDTH == 2
\* max_bucket_count given to the constructor.
MaxBuckets == 2
\* max_keyvalue_count given to the constructor (blocks of the pair pool).
MaxPairs == 3
\* Blocks of the slab pool.
MaxSlabs == 2
\* Keys are the 4-byte little-endian words 1..NumKeys.
NumKeys == 3
\* Values are the 4-byte little-endian words 1..NumValues.
NumValues == 2
\* Largest num_keys of a batch.
MaxBatch == 3
\* Kernel launches of a run of the model.
MaxLaunches == 4
\* Kernels launched in the runs over WideKeys.
MaxWideLaunches == 3
\* Kernels launched in the runs with stores that arrive late.
MaxRelaxedLaunches == 2
\* Most 4-byte words of a key given to the hash on its own.
MaxHashWords == 2
\* Largest bucket count of a table the hash is reduced for.
MaxHashBuckets == 3
\* Largest dsize_key of a table whose key broadcast is run on its own.
MaxSyncKeyBytes == 36
\* N of RGBDOdometryCuda<N>: the levels of the image pyramids.
N == 2
\* Largest width and largest height given to RGBDOdometryCuda<N>::Create.
MaxImageSide == 2
\* Largest entry of option_.iteration_number_per_pyramid_level_.
MaxIterations == 2
\* Calls of Create, Release and ComputeMultiScale on one object.
MaxOdometryCalls == 4

(***************************************************************************)
(* Program constants.                                                      *)
(***************************************************************************)
MAX_KEY_BYTESIZE == 32
\* (int) 0xFFFFFFFF: the head slabs are set to it bytewise by the constructor.
EMPTY_PAIR_PTR == -1
EMPTY_SLAB_PTR == -1
NULL_ITERATOR == -1
\* (int) 0xFFFFFFFE: the cursor value that stands for a bucket's head slab.
HEAD_SLAB_PTR == -2
\* dsize_key and dsize_value given to the constructor.
dsize_key_ == 4
dsize_value_ == 4

NEXT_SLAB_PTR_LANE == WARP_WIDTH - 1
\* ACTIVE_LANES_MASK: every lane of the warp.
Lanes == 0..(WARP_WIDTH - 1)
\* PAIR_PTR_LANES_MASK: the lanes that hold pair slots.
PairLanes == 0..(WARP_WIDTH - 2)
\* Threads of a block: a whole number of warps.
BLOCKSIZE_ == 2 * WARP_WIDTH

PairHandles == 0..(MaxPairs - 1)
SlabHandles == 0..(MaxSlabs - 1)

Min(S) == CHOOSE x \in S : \A y \in S : x <= y

\* __ffs of a ballot, the ballot being the set of lanes that voted true.
Ffs(ballot) == IF ballot = {} THEN 0 ELSE Min(ballot) + 1

(***************************************************************************)
(* Bytes, 32-bit words and 64-bit words (little-endian byte sequences).    *)
(***************************************************************************)
RECURSIVE XorBits(_, _, _)
XorBits(a, b, n) ==
    IF n = 0 THEN 0
    ELSE (((a % 2) + (b % 2)) % 2) + 2 * XorBits(a \div 2, b \div 2, n - 1)

XorByte(a, b) == XorBits(a, b, 8)

\* The 4 bytes of the word w, 0 <= w < 2^31, least significant first.
WordBytes(w) ==
    << w % 256, (w \div 256) % 256, (w \div 65536) % 256, (w \div 16777216) % 256 >>

\* (uint64_t) of the int32_t stored in bytes 4i+1..4i+4 of key: sign-extended.
SignExtend(key, i) ==
    LET top == key[4 * i + 4]
        fill == IF top >= 128 THEN 255 ELSE 0
    IN  << key[4 * i + 1], key[4 * i + 2], key[4 * i + 3], top,
           fill, fill, fill, fill >>

Xor64(x, y) == [j \in 1..8 |-> XorByte(x[j], y[j])]

\* Column j (1..8) of the schoolbook product x * y, before carries.
RECURSIVE MulColumn(_, _, _, _)
MulColumn(x, y, j, k) ==
    IF k > j THEN 0 ELSE x[k] * y[j - k + 1] + MulColumn(x, y, j, k + 1)

\* (x * y) mod 2^64
RECURSIVE MulCarry(_, _, _, _)
MulCarry(x, y, j, carry) ==
    IF j > 8 THEN << >>
    ELSE LET s == MulColumn(x, y, j, 1) + carry
         IN  << s % 256 >> \o MulCarry(x, y, j + 1, s \div 256)

Mul64(x, y) == MulCarry(x, y, 1, 0)

\* x mod n for a 64-bit x and 0 < n < 2^20.
RECURSIVE Mod64From(_, _, _, _)
Mod64From(x, n, j, r) ==
    IF j = 0 THEN r ELSE Mod64From(x, n, j - 1, (r * 256 + x[j]) % n)

Mod64(x, n) == Mod64From(x, n, 8, 0)

\* UINT64_C(14695981039346656037) = 0xCBF29CE484222325
HashOffsetBasis == << 37, 35, 34, 132, 228, 156, 242, 203 >>
\* UINT64_C(1099511628211) = 0x00000100000001B3
HashPrime == << 179, 1, 0, 0, 0, 1, 0, 0 >>

RECURSIVE HashLoop(_, _, _, _)
HashLoop(key, hash, i, chunks) ==
    IF i >= chunks THEN hash
    ELSE HashLoop(key, Mul64(Xor64(hash, SignExtend(key, i)), HashPrime),
                  i + 1, chunks)

\* DefaultHash::operator()
DefaultHash(key, key_size) ==
    HashLoop(key, HashOffsetBasis, 0, key_size \div 4)

(***************************************************************************)
(* Inputs of a batch.                                                      *)
(***************************************************************************)
Keys == { WordBytes(k) : k \in 1..NumKeys }
Values == { WordBytes(v) : v \in 1..NumValues }

num_buckets_ == MaxBuckets
Buckets == 0..(num_buckets_ - 1)

\* Warps of the largest launch: num_blocks blocks of BLOCKSIZE_ threads.
MaxWarps ==
    ((MaxBatch + BLOCKSIZE_ - 1) \div BLOCKSIZE_) * (BLOCKSIZE_ \div WARP_WIDTH)
Warps == 0..(MaxWarps - 1)

(***************************************************************************)
(* State.                                                                  *)
(***************************************************************************)
VARIABLES
    bucket_list_head_,   \* [Buckets -> [Lanes -> ptr]]: the head slabs
    slab_pool,           \* [SlabHandles -> [Lanes -> ptr]]: the slab pool's memory
    slab_used,           \* slab handles the slab allocator holds as allocated
    pair_pool,           \* [PairHandles -> bytes]: key bytes, then value bytes
    pair_used,           \* pair handles the pair allocator holds as allocated
    double_free,         \* pair handles the running kernel freed while they were free
    kernel,              \* "none", "insert", "search" or "remove"
    input_keys,          \* the batch's keys (num_keys of them)
    input_values,        \* the batch's values (Insert only)
    output_iterators,    \* [tid -> ptr], held at NULL_ITERATOR until the lane writes it
    output_masks,        \* [tid -> BOOLEAN], held at FALSE until the lane writes it
    output_writes,       \* [tid -> number of writes of the request's output entries]
    warp,                \* [Warps -> the locals of one warp]
    launches,            \* kernels launched so far
    only_new_keys,       \* so far every launch was an Insert of keys never given before
    slab_blocks,         \* blocks of the slab pool, fixed at construction
    held_iterators,      \* [Keys -> the iterators the caller got from Insert and still holds]
    at_launch,           \* the table as it was when the running kernel was launched
    pending_stores,      \* records whose bytes, written by the running kernel, may not
                         \* yet be what a warp other than the writer reads
    hash_call,           \* a call of ComputeBucket on a table of its own: arguments and results
    sync_call,           \* a call of WarpSyncKey and cmp on a table of its own
    odometry,            \* the fields of an RGBDOdometryCuda<N> object
    multiscale           \* the activation of RGBDOdometryCuda<N>::ComputeMultiScale

table == << bucket_list_head_, slab_pool, slab_used, pair_pool, pair_used >>
batch == << kernel, input_keys, input_values, output_iterators, output_masks,
           output_writes >>
vars == << bucket_list_head_, slab_pool, slab_used, pair_pool, pair_used,
           double_free, kernel, input_keys, input_values, output_iterators,
           output_masks, output_writes, warp, at_launch, launches, only_new_keys, slab_blocks, held_iterators, pending_stores,
           hash_call, sync_call, odometry, multiscale >>

\* The state outside the table of the batches.
others == << hash_call, sync_call, odometry, multiscale >>

\* A ComputeBucket that mixes the number of allocated records into the index.
ComputeBucket_by_load(key) ==
    (Mod64(DefaultHash(key, dsize_key_), num_buckets_) + Cardinality(pair_used)) % num_buckets_

\* HashmapCUDAContext::ComputeBucket
ComputeBucket(key) == Mod64(DefaultHash(key, dsize_key_), num_buckets_)

\* The keys of the batches that make chains in both buckets: one key more,
\* so that each bucket has two keys.
WideKeys == { WordBytes(k) : k \in 1..(NumKeys + 1) }

\* ComputeBucket of every key of the model, computed once.
BucketOf == [k \in WideKeys |-> ComputeBucket(k)]

num_keys == Len(input_keys)
Tids == 0..(MaxWarps * WARP_WIDTH - 1)
Tid(w, lane_id) == w * WARP_WIDTH + lane_id

EmptySlab == [l \in Lanes |-> EMPTY_PAIR_PTR]

NoLanes == [l \in Lanes |-> FALSE]

\* The locals of a warp that runs no kernel.
IdleWarp ==
    [ pc |-> "absent",
      lane_active |-> NoLanes,
      prev_work_queue |-> {},
      curr_slab_ptr |-> HEAD_SLAB_PTR,
      unit_data |-> EmptySlab,
      lane_found |-> -1,
      lane_empty |-> -1,
      prealloc_pair_internal_ptr |-> EmptySlab,
      new_next_slab_ptr |-> EMPTY_SLAB_PTR,
      pair_to_delete |-> EMPTY_PAIR_PTR,
      iterator |-> [l \in Lanes |-> NULL_ITERATOR],
      mask |-> NoLanes ]

NoLaunch == [ kernel |-> "none" ]

\* The bytes the model holds in a pair block that is not allocated.
FreedRecord == [i \in 1..(dsize_key_ + dsize_value_) |-> 0]

\* No call of ComputeBucket is under way.
NoHashCall ==
    [ pc |-> "idle", key_ptr |-> << >>, key_size_ |-> 4, num_buckets_ |-> 1,
      hash |-> HashOffsetBasis, bucket |-> 0 ]

\* No broadcast of a key is under way.
NoSyncCall ==
    [ pc |-> "idle", dsize_key_ |-> 4, key |-> << >>, record_key |-> << >>,
      src_key |-> << >>, is_lane_found |-> FALSE ]

\* RGBDOdometryCuda<N>::RGBDOdometryCuda: device_(nullptr).  width_ and
\* height_ are those of source_[0]; allocations counts the device states
\* made so far, calls the calls made, last is the call that returned last;
\* transform_source_to_target_ is held as the deltas multiplied onto the
\* caller's estimate.
ReleasedOdometry ==
    [ device_ |-> "nullptr",
      width_ |-> 0,
      height_ |-> 0,
      allocations |-> 0,
      option_ |-> [i \in 1..N |-> 1],
      transform_source_to_target_ |-> << >>,
      calls |-> 0,
      last |-> [ fn |-> "none", width |-> 0, height |-> 0, ret |-> FALSE ] ]

\* ComputeMultiScale is not running.  iterations: the calls of
\* DoSingleIteration made, each << level, iter, is_success >>.
NoMultiScale ==
    [ pc |-> "idle",
      level |-> 0,
      iter |-> 0,
      losses |-> << >>,
      losses_on_level |-> << >>,
      iterations |-> << >>,
      is_success |-> FALSE,
      transform |-> "none" ]

\* Nothing but the table of the batches is in use.
OthersIdle ==
    /\ hash_call = NoHashCall
    /\ sync_call = NoSyncCall
    /\ odometry = ReleasedOdometry
    /\ multiscale = NoMultiScale

\* A constructor that clears the head slabs with 0x00 bytes.
Constructed_zeroed ==
    /\ bucket_list_head_ = [b \in Buckets |-> [l \in Lanes |-> 0]]
    /\ slab_pool = [s \in SlabHandles |-> EmptySlab]
    /\ slab_used = {}
    /\ pair_pool = [p \in PairHandles |-> FreedRecord]
    /\ pair_used = {}
    /\ double_free = {}
    /\ kernel = "none"
    /\ input_keys = << >>
    /\ input_values = << >>
    /\ output_iterators = [t \in Tids |-> NULL_ITERATOR]
    /\ output_masks = [t \in Tids |-> FALSE]
    /\ output_writes = [t \in Tids |-> 0]
    /\ warp = [w \in Warps |-> IdleWarp]
    /\ at_launch = NoLaunch
    /\ launches = 0
    /\ only_new_keys = TRUE
    /\ held_iterators = [k \in Keys |-> {}]
    /\ pending_stores = {}

\* HashmapCUDA::HashmapCUDA, but for the size of the slab pool.
Constructed ==
    /\ bucket_list_head_ = [b \in Buckets |-> EmptySlab]
    /\ slab_pool = [s \in SlabHandles |-> EmptySlab]
    /\ slab_used = {}
    /\ pair_pool = [p \in PairHandles |-> FreedRecord]
    /\ pair_used = {}
    /\ double_free = {}
    /\ kernel = "none"
    /\ input_keys = << >>
    /\ input_values = << >>
    /\ output_iterators = [t \in Tids |-> NULL_ITERATOR]
    /\ output_masks = [t \in Tids |-> FALSE]
    /\ output_writes = [t \in Tids |-> 0]
    /\ warp = [w \in Warps |-> IdleWarp]
    /\ at_launch = NoLaunch
    /\ launches = 0
    /\ only_new_keys = TRUE
    /\ held_iterators = [k \in Keys |-> {}]
    /\ pending_stores = {}

\* HashmapCUDA::HashmapCUDA
Init ==
    /\ Constructed
    /\ slab_blocks = MaxSlabs
    /\ OthersIdle

(***************************************************************************)
(* Memory: slots of slabs, pair records, and the two allocators.           *)
(***************************************************************************)
\* get_unit_ptr_from_list_head / get_unit_ptr_from_list_nodes, as the code
\* selects between them by the cursor.
UnitPtr(bucket_id, slab_ptr, lane_id) ==
    IF slab_ptr = HEAD_SLAB_PTR
    THEN << "head", bucket_id, lane_id >>
    ELSE << "node", slab_ptr, lane_id >>

\* *unit_ptr
Load(unit_ptr) ==
    IF unit_ptr[1] = "head"
    THEN bucket_list_head_[unit_ptr[2]][unit_ptr[3]]
    ELSE slab_pool[unit_ptr[2]][unit_ptr[3]]

\* The slab a warp reads in one iteration: lane l reads unit l.
ReadSlab(bucket_id, slab_ptr) ==
    [l \in Lanes |-> Load(UnitPtr(bucket_id, slab_ptr, l))]

\* A store that does not compare: what a plain write in place of the
\* atomicCAS would do.
atomicCAS_store(unit_ptr, compare, val) ==
    /\ bucket_list_head_' =
          IF unit_ptr[1] = "head"
          THEN [bucket_list_head_ EXCEPT ![unit_ptr[2]][unit_ptr[3]] = val]
          ELSE bucket_list_head_
    /\ slab_pool' =
          IF unit_ptr[1] = "node"
          THEN [slab_pool EXCEPT ![unit_ptr[2]][unit_ptr[3]] = val]
          ELSE slab_pool

\* The memory effect of atomicCAS(unit_ptr, compare, val); it returns
\* Load(unit_ptr) of the state before.
atomicCAS(unit_ptr, compare, val) ==
    LET new == IF Load(unit_ptr) = compare THEN val ELSE Load(unit_ptr)
    IN  /\ bucket_list_head_' =
              IF unit_ptr[1] = "head"
              THEN [bucket_list_head_ EXCEPT ![unit_ptr[2]][unit_ptr[3]] = new]
              ELSE bucket_list_head_
        /\ slab_pool' =
              IF unit_ptr[1] = "node"
              THEN [slab_pool EXCEPT ![unit_ptr[2]][unit_ptr[3]] = new]
              ELSE slab_pool

\* pair_allocator_ctx_.extract_ptr: the record a pair handle names.
extract_ptr(ptr) == pair_pool[ptr]

\* The key bytes of a record.
RecordKey(record) == SubSeq(record, 1, dsize_key_)
\* The value bytes of a record.
RecordValue(record) == SubSeq(record, dsize_key_ + 1, dsize_key_ + dsize_value_)

\* The units of the table that hold pair handles.
DataUnits ==
    { << "head", b, l >> : b \in Buckets, l \in PairLanes }
        \cup { << "node", s, l >> : s \in SlabHandles, l \in PairLanes }

\* Pair blocks an Allocate may claim.
PairFree == PairHandles \ pair_used

\* The Allocate calls of `lanes` claim the blocks `got` and write `record`
\* into them.
PairAllocated(got, record) ==
    /\ pair_used' = pair_used \cup got
    /\ pair_pool' = [p \in PairHandles |-> IF p \in got THEN record[p] ELSE pair_pool[p]]

\* pair_allocator_ctx_.Free: the block's bit is set free.  The bytes of a free
\* block are not part of the state (every step reads allocated blocks only):
\* they are held at FreedRecord.
PairFreed(ptr) ==
    /\ pair_used' = pair_used \ {ptr}
    /\ pair_pool' = [p \in PairHandles |-> IF p = ptr THEN FreedRecord ELSE pair_pool[p]]
    /\ double_free' =
          IF ptr \in PairHandles \ pair_used
          THEN double_free \cup {ptr}
          ELSE double_free

SlabFree == { s \in SlabHandles : s < slab_blocks } \ slab_used

\* The slab blocks a WarpAllocate may claim: the first free block the scan of
\* the pool finds.
WarpAllocate == IF SlabFree = {} THEN {} ELSE { Min(SlabFree) }

(***************************************************************************)
(* The collective primitives of a warp.                                    *)
(***************************************************************************)
\* __ballot_sync(ACTIVE_LANES_MASK, lane_active)
WorkQueue(w) == { l \in Lanes : warp[w].lane_active[l] }

\* A step 0 that keeps the cursor where the last iteration left it.
Cursor_no_reset(w) == warp[w].curr_slab_ptr

\* The cursor after step 0 of an iteration.
Cursor(w) ==
    IF warp[w].prev_work_queue # WorkQueue(w)
    THEN HEAD_SLAB_PTR
    ELSE warp[w].curr_slab_ptr

SrcLane(w) == Ffs(WorkQueue(w)) - 1

\* The key pointer a lane of the kernel passes to the loop.
KeyPtr(w, lane_id) == input_keys[Tid(w, lane_id) + 1]
ValuePtr(w, lane_id) == input_values[Tid(w, lane_id) + 1]

\* bucket_id of a lane: ComputeBucket of its key, 0 for a lane without request.
BucketId(w, lane_id) ==
    IF Tid(w, lane_id) < num_keys THEN BucketOf[KeyPtr(w, lane_id)] ELSE 0

\* A src_bucket taken from lane 0 whichever lane leads.
SrcBucket_lane0(w) == BucketId(w, 0)

\* __shfl_sync(ACTIVE_LANES_MASK, bucket_id, src_lane, WARP_WIDTH)
SrcBucket(w) == BucketId(w, SrcLane(w))

\* HashmapCUDAContext::WarpSyncKey: the chunks 4-byte words of the leader's key.
WarpSyncKey(key_ptr) ==
    [i \in 1..(4 * (dsize_key_ \div 4)) |-> key_ptr[i]]

SrcKey(w) == WarpSyncKey(KeyPtr(w, SrcLane(w)))

\* A comparison that skips the first byte.
cmp_tail(src, dst, dsize) == \A i \in 2..dsize : src[i] = dst[i]

cmp(src, dst, dsize) == \A i \in 1..dsize : src[i] = dst[i]

\* A WarpFindKey that takes any occupied unit for a match.
WarpFindKey_occupied(key_ptr, unit_data) ==
    Ffs({ l \in PairLanes : unit_data[l] # EMPTY_PAIR_PTR }) - 1

\* HashmapCUDAContext::WarpFindKey, over the units the lanes read.
WarpFindKey(key_ptr, unit_data) ==
    Ffs({ l \in PairLanes :
            /\ unit_data[l] # EMPTY_PAIR_PTR
            /\ cmp(extract_ptr(unit_data[l]), key_ptr, dsize_key_) }) - 1

\* A WarpFindEmpty that never reports an empty unit.
WarpFindEmpty_none(unit_data) == -1

\* HashmapCUDAContext::WarpFindEmpty, over the units the lanes read.
WarpFindEmpty(unit_data) ==
    Ffs({ l \in PairLanes : unit_data[l] = EMPTY_PAIR_PTR }) - 1

(***************************************************************************)
(* Kernel launches (the host side of a batch).                             *)
(***************************************************************************)
\* Warps of a launch of n requests.
LaunchedWarps(n) ==
    { w \in Warps :
        w < ((n + BLOCKSIZE_ - 1) \div BLOCKSIZE_) * (BLOCKSIZE_ \div WARP_WIDTH) }

\* The prologue of a kernel: an idle warp returns, the lanes with a request
\* become active.
KernelEntry(n, w, first_pc) ==
    IF w \notin LaunchedWarps(n) THEN IdleWarp
    ELSE IF Tid(w, 0) >= n THEN [IdleWarp EXCEPT !.pc = "done"]
    ELSE [IdleWarp EXCEPT !.pc = first_pc,
                          !.lane_active = [l \in Lanes |-> Tid(w, l) < n]]

TableNow ==
    [ kernel |-> "running",
      bucket_list_head_ |-> bucket_list_head_,
      slab_pool |-> slab_pool,
      slab_used |-> slab_used,
      pair_pool |-> pair_pool,
      pair_used |-> pair_used ]

\* The data units of the table T (see TableNow) that hold a record with `key`.
UnitsWithKey(T, key) ==
    { u \in DataUnits :
        LET ptr == IF u[1] = "head"
                   THEN T.bucket_list_head_[u[2]][u[3]]
                   ELSE T.slab_pool[u[2]][u[3]]
        IN  /\ ptr # EMPTY_PAIR_PTR
            /\ RecordKey(T.pair_pool[ptr]) = key }

Launch(name, ks, vs, first_pc) ==
    /\ kernel = "none"
    /\ only_new_keys' =
          /\ only_new_keys
          /\ name = "insert"
          /\ \A i, j \in DOMAIN ks : i # j => ks[i] # ks[j]
          /\ \A i \in DOMAIN ks : UnitsWithKey(TableNow, ks[i]) = {}
    /\ launches < MaxLaunches
    /\ launches' = launches + 1
    /\ kernel' = name
    /\ input_keys' = ks
    /\ input_values' = vs
    /\ output_iterators' = [t \in Tids |-> NULL_ITERATOR]
    /\ output_masks' = [t \in Tids |-> FALSE]
    /\ output_writes' = [t \in Tids |-> 0]
    /\ warp' = [w \in Warps |-> KernelEntry(Len(ks), w, first_pc)]
    /\ at_launch' = TableNow
    /\ UNCHANGED << table, double_free, slab_blocks, held_iterators, pending_stores, others >>

\* The values of a batch of n requests: the words 1, 2, ... taken within
\* 1..NumValues, so that neighbouring requests carry different values.
BatchValues(n) == [t \in 1..n |-> WordBytes(((t - 1) % NumValues) + 1)]

\* HashmapCUDA::Insert, for a batch the pair pool has records for.
InsertCall ==
    \E n \in 1..MaxBatch :
        /\ n <= Cardinality(PairFree)
        /\ \E ks \in [1..n -> Keys] :
              Launch("insert", ks, BatchValues(n), "prealloc")

\* HashmapCUDA::Search
SearchCall ==
    \E n \in 1..MaxBatch :
        \E ks \in [1..n -> Keys] : Launch("search", ks, << >>, "loop")

\* HashmapCUDA::Remove
RemoveCall ==
    \E n \in 1..MaxBatch :
        \E ks \in [1..n -> Keys] : Launch("remove", ks, << >>, "loop")

\* cudaDeviceSynchronize returns: every warp of the kernel has returned.
\* What the caller holds for key k once the call has returned: an Insert that
\* reported success gave it an iterator, a Remove that reported success ended
\* the life of the ones it held.
Returned(k) ==
    LET mine == { t \in 0..(num_keys - 1) : input_keys[t + 1] = k /\ output_masks[t] }
    IN  CASE kernel = "insert" -> held_iterators[k] \cup { output_iterators[t] : t \in mine }
          [] kernel = "remove" /\ mine # {} -> {}
          [] OTHER -> held_iterators[k]

Synchronize ==
    /\ kernel \notin {"none", "fault"}
    /\ \A w \in Warps : warp[w].pc \in {"done", "absent"}
    /\ kernel' = "none"
    /\ input_keys' = << >>
    /\ input_values' = << >>
    /\ output_iterators' = [t \in Tids |-> NULL_ITERATOR]
    /\ output_masks' = [t \in Tids |-> FALSE]
    /\ output_writes' = [t \in Tids |-> 0]
    /\ warp' = [w \in Warps |-> IdleWarp]
    /\ at_launch' = NoLaunch
    /\ held_iterators' = [k \in Keys |-> Returned(k)]
    /\ pending_stores' = {}
    /\ UNCHANGED << launches, only_new_keys, slab_blocks, others >>
    /\ double_free' = {}
    /\ UNCHANGED table

(***************************************************************************)
(* Steps of a warp.  A step is one access to global memory together with   *)
(* the warp-local computation that follows it.                             *)
(***************************************************************************)
\* The end of an iteration (prev_work_queue = work_queue) and the loop test.
\* r: the warp's locals after the branch the iteration took.  A warp that
\* leaves the loop returns: of its locals the results stay.
EndIteration(w, r) ==
    IF \E l \in Lanes : r.lane_active[l]
    THEN [r EXCEPT !.pc = "loop",
                   !.prev_work_queue = WorkQueue(w),
                   !.unit_data = EmptySlab,
                   !.lane_found = -1,
                   !.lane_empty = -1,
                   !.new_next_slab_ptr = EMPTY_SLAB_PTR,
                   !.pair_to_delete = EMPTY_PAIR_PTR]
    ELSE [IdleWarp EXCEPT !.pc = "done",
                          !.prealloc_pair_internal_ptr = r.prealloc_pair_internal_ptr,
                          !.iterator = r.iterator,
                          !.mask = r.mask]

\* The epilogue of a kernel, taken with the step in which a warp leaves the
\* loop: every lane with a request writes its results to the output arrays.
WriteBack(writes_iterators) ==
    LET returns(t) ==
            /\ t < num_keys
            /\ warp[t \div WARP_WIDTH].pc # "done"
            /\ warp'[t \div WARP_WIDTH].pc = "done"
    IN  /\ output_masks' =
              [t \in Tids |->
                  IF returns(t)
                  THEN warp'[t \div WARP_WIDTH].mask[t % WARP_WIDTH]
                  ELSE output_masks[t]]
        /\ output_iterators' =
              [t \in Tids |->
                  IF returns(t) /\ writes_iterators
                  THEN warp'[t \div WARP_WIDTH].iterator[t % WARP_WIDTH]
                  ELSE output_iterators[t]]
        /\ output_writes' =
              [t \in Tids |-> IF returns(t) THEN output_writes[t] + 1 ELSE output_writes[t]]

\* The handles the Allocate calls of the lanes in `lanes` return: each lane
\* claims the first free block the scan of the pool finds, the lanes in the
\* order of their numbers; a lane that finds no free block gets the sentinel.
RECURSIVE AllocateScan(_, _)
AllocateScan(lanes, free) ==
    IF lanes = {} THEN << >>
    ELSE LET l == Min(lanes)
             p == IF free = {} THEN EMPTY_PAIR_PTR ELSE Min(free)
         IN  (l :> p) @@ AllocateScan(lanes \ {l}, free \ {p})

AllocatePairs(lanes) == { AllocateScan(lanes, PairFree) }

\* Insert, before the loop: every active lane allocates a pair record and
\* writes its key and value into it with plain stores.  No __threadfence
\* follows the stores (the file has none), so nothing orders them, for a warp
\* other than the writer, before the atomicCAS that later stores the handle.
InsertPrealloc(w) ==
    /\ kernel = "insert"
    /\ warp[w].pc = "prealloc"
    /\ \E alloc \in AllocatePairs(WorkQueue(w)) :
          LET got == { alloc[l] : l \in WorkQueue(w) } \ {EMPTY_PAIR_PTR}
              owner(p) == CHOOSE l \in WorkQueue(w) : alloc[l] = p
          IN  /\ PairAllocated(got,
                    [p \in got |-> KeyPtr(w, owner(p)) \o ValuePtr(w, owner(p))])
              /\ warp' = [warp EXCEPT ![w] =
                    [@ EXCEPT !.pc = "loop",
                              !.prealloc_pair_internal_ptr =
                                  [l \in Lanes |->
                                      IF l \in WorkQueue(w) THEN alloc[l]
                                      ELSE EMPTY_PAIR_PTR]]]
              /\ pending_stores' = pending_stores \cup got
    /\ UNCHANGED << bucket_list_head_, slab_pool, slab_used, double_free, batch,
                    at_launch, launches, only_new_keys, slab_blocks, held_iterators, others >>

\* Insert, steps 0..4 of an iteration: reset the cursor, elect the leader,
\* read the slab, vote.  Branch 3.1 (advance to the next slab) touches no
\* memory and ends the iteration here.
InsertRead(w) ==
    /\ kernel = "insert"
    /\ warp[w].pc = "loop"
    /\ LET unit_data == ReadSlab(SrcBucket(w), Cursor(w))
           lane_found == WarpFindKey(SrcKey(w), unit_data)
           lane_empty == WarpFindEmpty(unit_data)
           next_slab_ptr == unit_data[NEXT_SLAB_PTR_LANE]
           r == [warp[w] EXCEPT !.curr_slab_ptr = Cursor(w)]
       IN  IF lane_found >= 0 \/ lane_empty >= 0 \/ next_slab_ptr = EMPTY_SLAB_PTR
           THEN warp' = [warp EXCEPT ![w] =
                    [r EXCEPT !.unit_data = unit_data,
                              !.lane_found = lane_found,
                              !.lane_empty = lane_empty,
                              !.pc = IF lane_found >= 0 THEN "branch1"
                                     ELSE IF lane_empty >= 0 THEN "branch2"
                                     ELSE "branch3"]]
           ELSE warp' = [warp EXCEPT ![w] =
                    [r EXCEPT !.curr_slab_ptr = next_slab_ptr,
                              !.prev_work_queue = WorkQueue(w)]]
    /\ UNCHANGED << table, double_free, batch, at_launch, launches, only_new_keys, slab_blocks, held_iterators, pending_stores, others >>

\* A Branch 1 that frees the record the vote found in place of the leader's own.
InsertBranch1_frees_found(w) ==
    /\ kernel = "insert"
    /\ warp[w].pc = "branch1"
    /\ LET src_lane == SrcLane(w)
           ptr == warp[w].unit_data[warp[w].lane_found]
       IN  /\ PairFreed(ptr)
           /\ warp' = [warp EXCEPT ![w] =
                 EndIteration(w, [warp[w] EXCEPT !.lane_active[src_lane] = FALSE])]
           /\ WriteBack(TRUE)
    /\ UNCHANGED << bucket_list_head_, slab_pool, slab_used,
                    kernel, input_keys, input_values, at_launch, launches, only_new_keys, slab_blocks, held_iterators, pending_stores, others >>

\* A Branch 1 that keeps the leader's record allocated.
InsertBranch1_no_free(w) ==
    /\ kernel = "insert"
    /\ warp[w].pc = "branch1"
    /\ LET src_lane == SrcLane(w)
           ptr == warp[w].prealloc_pair_internal_ptr[src_lane]
       IN  /\ UNCHANGED << pair_used, pair_pool, double_free >>
           /\ warp' = [warp EXCEPT ![w] =
                 EndIteration(w, [warp[w] EXCEPT !.lane_active[src_lane] = FALSE])]
           /\ WriteBack(TRUE)
    /\ UNCHANGED << bucket_list_head_, slab_pool, slab_used,
                    kernel, input_keys, input_values, at_launch, launches, only_new_keys, slab_blocks, held_iterators, pending_stores, others >>

\* Insert, Branch 1: the key exists; the leader frees its record and is done.
InsertBranch1(w) ==
    /\ kernel = "insert"
    /\ warp[w].pc = "branch1"
    /\ LET src_lane == SrcLane(w)
           ptr == warp[w].prealloc_pair_internal_ptr[src_lane]
       IN  /\ PairFreed(ptr)
           /\ warp' = [warp EXCEPT ![w] =
                 EndIteration(w, [warp[w] EXCEPT !.lane_active[src_lane] = FALSE])]
           /\ WriteBack(TRUE)
    /\ UNCHANGED << bucket_list_head_, slab_pool, slab_used,
                    kernel, input_keys, input_values, at_launch, launches, only_new_keys, slab_blocks, held_iterators, pending_stores, others >>

\* Insert, Branch 2: the leader tries to put its record into the empty unit.
InsertBranch2(w) ==
    /\ kernel = "insert"
    /\ warp[w].pc = "branch2"
    /\ LET src_lane == SrcLane(w)
           ptr == warp[w].prealloc_pair_internal_ptr[src_lane]
           unit_data_ptr ==
               UnitPtr(SrcBucket(w), warp[w].curr_slab_ptr, warp[w].lane_empty)
           old_pair_internal_ptr == Load(unit_data_ptr)
       IN  /\ atomicCAS(unit_data_ptr, EMPTY_PAIR_PTR, ptr)
           /\ warp' = [warp EXCEPT ![w] =
                 IF old_pair_internal_ptr = EMPTY_PAIR_PTR
                 THEN EndIteration(w, [warp[w] EXCEPT !.lane_active[src_lane] = FALSE,
                                                      !.iterator[src_lane] = ptr,
                                                      !.mask[src_lane] = TRUE])
                 ELSE EndIteration(w, warp[w])]
           /\ WriteBack(TRUE)
    /\ UNCHANGED << slab_used, pair_pool, pair_used, double_free,
                    kernel, input_keys, input_values, at_launch, launches, only_new_keys, slab_blocks, held_iterators, pending_stores, others >>

\* A Branch 3.2 that takes the first slab of the pool without asking the
\* allocator whether it is free.
InsertAllocateSlab_first(w) ==
    /\ kernel = "insert"
    /\ warp[w].pc = "branch3"
    /\ slab_used' = slab_used \cup {Min(SlabHandles)}
    /\ warp' = [warp EXCEPT ![w] =
          [@ EXCEPT !.pc = "branch3cas", !.new_next_slab_ptr = Min(SlabHandles)]]
    /\ UNCHANGED << bucket_list_head_, slab_pool, pair_pool, pair_used,
                    double_free, batch, at_launch, launches, only_new_keys, slab_blocks, held_iterators, pending_stores, others >>

\* Insert, Branch 3.2: the chain ends at a full slab; allocate a slab.
InsertAllocateSlab(w) ==
    /\ kernel = "insert"
    /\ warp[w].pc = "branch3"
    /\ \/ \E s \in WarpAllocate :
             /\ slab_used' = slab_used \cup {s}
             /\ warp' = [warp EXCEPT ![w] =
                   [@ EXCEPT !.pc = "branch3cas", !.new_next_slab_ptr = s]]
       \/ /\ SlabFree = {}
          /\ slab_used' = slab_used
          /\ warp' = [warp EXCEPT ![w] =
                [@ EXCEPT !.pc = "branch3cas",
                          !.new_next_slab_ptr = EMPTY_SLAB_PTR]]
    /\ UNCHANGED << bucket_list_head_, slab_pool, pair_pool, pair_used,
                    double_free, batch, at_launch, launches, only_new_keys, slab_blocks, held_iterators, pending_stores, others >>

\* A Branch 3.2 that keeps its slab when another warp linked one first.
InsertLinkSlab_no_free(w) ==
    /\ kernel = "insert"
    /\ warp[w].pc = "branch3cas"
    /\ LET unit_data_ptr ==
               UnitPtr(SrcBucket(w), warp[w].curr_slab_ptr, NEXT_SLAB_PTR_LANE)
           old_next_slab_ptr == Load(unit_data_ptr)
       IN  /\ atomicCAS(unit_data_ptr, EMPTY_SLAB_PTR, warp[w].new_next_slab_ptr)
           /\ slab_used' = slab_used
           /\ warp' = [warp EXCEPT ![w] = EndIteration(w, warp[w])]
           /\ WriteBack(TRUE)
    /\ UNCHANGED << pair_pool, pair_used, double_free,
                    kernel, input_keys, input_values, at_launch, launches, only_new_keys, slab_blocks, held_iterators, pending_stores, others >>

\* Insert, Branch 3.2: lane NEXT_SLAB_PTR_LANE tries to link the new slab and
\* frees it when another warp linked one first.
InsertLinkSlab(w) ==
    /\ kernel = "insert"
    /\ warp[w].pc = "branch3cas"
    /\ LET unit_data_ptr ==
               UnitPtr(SrcBucket(w), warp[w].curr_slab_ptr, NEXT_SLAB_PTR_LANE)
           old_next_slab_ptr == Load(unit_data_ptr)
       IN  /\ atomicCAS(unit_data_ptr, EMPTY_SLAB_PTR, warp[w].new_next_slab_ptr)
           /\ slab_used' =
                 IF old_next_slab_ptr # EMPTY_SLAB_PTR
                 THEN slab_used \ {warp[w].new_next_slab_ptr}
                 ELSE slab_used
           /\ warp' = [warp EXCEPT ![w] = EndIteration(w, warp[w])]
           /\ WriteBack(TRUE)
    /\ UNCHANGED << pair_pool, pair_used, double_free,
                    kernel, input_keys, input_values, at_launch, launches, only_new_keys, slab_blocks, held_iterators, pending_stores, others >>

\* Remove, no unit of the slab matches and the chain ends here: the lanes'
\* to_be_deleted flags after the assignment of the else branch, which every
\* lane of the warp executes.
RemoveNotFound(lane_active, src_lane) == NoLanes

\* Remove, steps 0..4 of an iteration.  The branch without a match touches
\* no memory and ends the iteration here.
RemoveRead(w) ==
    /\ kernel = "remove"
    /\ warp[w].pc = "loop"
    /\ LET unit_data == ReadSlab(SrcBucket(w), Cursor(w))
           lane_found == WarpFindKey(SrcKey(w), unit_data)
           next_slab_ptr == unit_data[NEXT_SLAB_PTR_LANE]
           r == [warp[w] EXCEPT !.curr_slab_ptr = Cursor(w)]
       IN  IF lane_found >= 0
           THEN warp' = [warp EXCEPT ![w] =
                    [r EXCEPT !.unit_data = unit_data,
                              !.lane_found = lane_found,
                              !.pc = "found"]]
           ELSE IF next_slab_ptr = EMPTY_SLAB_PTR
           THEN warp' = [warp EXCEPT ![w] =
                    EndIteration(w,
                        [r EXCEPT !.lane_active =
                                      RemoveNotFound(r.lane_active, SrcLane(w))])]
           ELSE warp' = [warp EXCEPT ![w] =
                    [r EXCEPT !.curr_slab_ptr = next_slab_ptr,
                              !.prev_work_queue = WorkQueue(w)]]
    /\ WriteBack(FALSE)
    /\ UNCHANGED << table, double_free, kernel, input_keys, input_values,
                    at_launch, launches, only_new_keys, slab_blocks, held_iterators, pending_stores, others >>

\* Remove, Branch 1: the leader reads the matched unit again.
RemoveReload(w) ==
    /\ kernel = "remove"
    /\ warp[w].pc = "found"
    /\ warp' = [warp EXCEPT ![w] =
          [@ EXCEPT !.pc = "cas",
                    !.pair_to_delete =
                        Load(UnitPtr(SrcBucket(w), warp[w].curr_slab_ptr,
                                     warp[w].lane_found))]]
    /\ UNCHANGED << table, double_free, batch, at_launch, launches, only_new_keys, slab_blocks, held_iterators, pending_stores, others >>

\* A Branch 1 of Remove that gives a chained slab back to the slab allocator
\* once it has cleared a unit of it.
RemoveClear_frees_slab(w) ==
    /\ kernel = "remove"
    /\ warp[w].pc = "cas"
    /\ LET src_lane == SrcLane(w)
           src_pair_internal_ptr == warp[w].unit_data[warp[w].lane_found]
           unit_data_ptr ==
               UnitPtr(SrcBucket(w), warp[w].curr_slab_ptr, warp[w].lane_found)
           old_key_value_pair == Load(unit_data_ptr)
           reset == old_key_value_pair = warp[w].pair_to_delete
       IN  /\ atomicCAS(unit_data_ptr, warp[w].pair_to_delete, EMPTY_PAIR_PTR)
           /\ IF reset
              THEN PairFreed(src_pair_internal_ptr)
              ELSE UNCHANGED << pair_used, pair_pool, double_free >>
           /\ slab_used' = slab_used \ {warp[w].curr_slab_ptr}
           /\ warp' = [warp EXCEPT ![w] =
                 EndIteration(w, [warp[w] EXCEPT !.lane_active[src_lane] = FALSE,
                                                 !.mask[src_lane] = reset])]
           /\ WriteBack(FALSE)
    /\ UNCHANGED << kernel, input_keys, input_values, at_launch, launches, only_new_keys, slab_blocks, held_iterators, pending_stores, others >>

\* A Branch 1 of Remove that frees the record whatever the CAS returned.
RemoveClear_frees_anyway(w) ==
    /\ kernel = "remove"
    /\ warp[w].pc = "cas"
    /\ LET src_lane == SrcLane(w)
           src_pair_internal_ptr == warp[w].unit_data[warp[w].lane_found]
           unit_data_ptr ==
               UnitPtr(SrcBucket(w), warp[w].curr_slab_ptr, warp[w].lane_found)
           old_key_value_pair == Load(unit_data_ptr)
           reset == old_key_value_pair = warp[w].pair_to_delete
       IN  /\ atomicCAS(unit_data_ptr, warp[w].pair_to_delete, EMPTY_PAIR_PTR)
           /\ PairFreed(src_pair_internal_ptr)
           /\ warp' = [warp EXCEPT ![w] =
                 EndIteration(w, [warp[w] EXCEPT !.lane_active[src_lane] = FALSE,
                                                 !.mask[src_lane] = reset])]
           /\ WriteBack(FALSE)
    /\ UNCHANGED << slab_used, kernel, input_keys, input_values, at_launch, launches, only_new_keys, slab_blocks, held_iterators, pending_stores, others >>

\* Remove, Branch 1: the leader clears the unit and, when the CAS returned
\* the value it expected, frees the record the vote found.
RemoveClear(w) ==
    /\ kernel = "remove"
    /\ warp[w].pc = "cas"
    /\ LET src_lane == SrcLane(w)
           src_pair_internal_ptr == warp[w].unit_data[warp[w].lane_found]
           unit_data_ptr ==
               UnitPtr(SrcBucket(w), warp[w].curr_slab_ptr, warp[w].lane_found)
           old_key_value_pair == Load(unit_data_ptr)
           reset == old_key_value_pair = warp[w].pair_to_delete
       IN  /\ atomicCAS(unit_data_ptr, warp[w].pair_to_delete, EMPTY_PAIR_PTR)
           /\ IF reset
              THEN PairFreed(src_pair_internal_ptr)
              ELSE UNCHANGED << pair_used, pair_pool, double_free >>
           /\ warp' = [warp EXCEPT ![w] =
                 EndIteration(w, [warp[w] EXCEPT !.lane_active[src_lane] = FALSE,
                                                 !.mask[src_lane] = reset])]
           /\ WriteBack(FALSE)
    /\ UNCHANGED << slab_used, kernel, input_keys, input_values, at_launch, launches, only_new_keys, slab_blocks, held_iterators, pending_stores, others >>

\* Search, one iteration of warp w: the warp's locals after it.
SearchIteration(w) ==
    LET src_lane == SrcLane(w)
        unit_data == ReadSlab(SrcBucket(w), Cursor(w))
        lane_found == WarpFindKey(SrcKey(w), unit_data)
        next_slab_ptr == unit_data[NEXT_SLAB_PTR_LANE]
        r == [warp[w] EXCEPT !.curr_slab_ptr = Cursor(w)]
    IN  IF lane_found >= 0
        THEN EndIteration(w, [r EXCEPT !.lane_active[src_lane] = FALSE,
                                       !.iterator[src_lane] = unit_data[lane_found],
                                       !.mask[src_lane] = TRUE])
        ELSE IF next_slab_ptr = EMPTY_SLAB_PTR
        THEN EndIteration(w, [r EXCEPT !.lane_active[src_lane] = FALSE])
        ELSE [r EXCEPT !.curr_slab_ptr = next_slab_ptr,
                       !.prev_work_queue = WorkQueue(w)]

\* A Search that takes the records it finds out of the pair allocator.
SearchStep_frees ==
    /\ kernel = "search"
    /\ \E w \in Warps : warp[w].pc = "loop"
    /\ warp' = [w \in Warps |->
          IF warp[w].pc = "loop" THEN SearchIteration(w) ELSE warp[w]]
    /\ WriteBack(TRUE)
    /\ pair_used' = pair_used \ { warp'[w].iterator[l] : w \in Warps, l \in Lanes }
    /\ UNCHANGED << bucket_list_head_, slab_pool, slab_used, pair_pool,
                    double_free, kernel, input_keys, input_values,
                    at_launch, launches, only_new_keys, slab_blocks, held_iterators, pending_stores, others >>

\* Search: the warps in their loops run one iteration each.  An iteration of
\* Search writes no global memory, so the iterations of different warps
\* commute and every schedule of them gives the results of this one.
SearchStep ==
    /\ kernel = "search"
    /\ \E w \in Warps : warp[w].pc = "loop"
    /\ warp' = [w \in Warps |->
          IF warp[w].pc = "loop" THEN SearchIteration(w) ELSE warp[w]]
    /\ WriteBack(TRUE)
    /\ UNCHANGED << table, double_free, kernel, input_keys, input_values,
                    at_launch, launches, only_new_keys, slab_blocks, held_iterators, pending_stores, others >>

\* The device faults: the kernel is gone, the call throws, and nothing of the
\* table can be used any more.
Faulted ==
    /\ kernel' = "fault"
    /\ bucket_list_head_' = [b \in Buckets |-> EmptySlab]
    /\ slab_pool' = [s \in SlabHandles |-> EmptySlab]
    /\ slab_used' = {}
    /\ pair_pool' = [p \in PairHandles |-> FreedRecord]
    /\ pair_used' = {}
    /\ double_free' = {}
    /\ input_keys' = << >>
    /\ input_values' = << >>
    /\ output_iterators' = [t \in Tids |-> NULL_ITERATOR]
    /\ output_masks' = [t \in Tids |-> FALSE]
    /\ output_writes' = [t \in Tids |-> 0]
    /\ warp' = [v \in Warps |-> IdleWarp]
    /\ at_launch' = NoLaunch
    /\ launches' = MaxLaunches
    /\ only_new_keys' = FALSE
    /\ held_iterators' = [k \in Keys |-> {}]
    /\ pending_stores' = {}
    /\ UNCHANGED << slab_blocks, others >>

\* RemoveKernel leaves `key` without a value in the lanes that have no
\* request (line 794; InsertKernel and SearchKernel point it at dummy_key),
\* and WarpSyncKey reads ((int*)key)[i] in every lane of the warp before the
\* shuffle (line 367).  In a partly filled warp the read goes through an
\* indeterminate pointer: the value read is not used, the read itself either
\* passes (RemoveRead goes on as written) or faults, which is this step.
RemoveFault(w) ==
    /\ kernel = "remove"
    /\ warp[w].pc = "loop"
    /\ \E l \in Lanes : Tid(w, l) >= num_keys
    /\ Faulted

(***************************************************************************)
(* Specification.                                                          *)
(***************************************************************************)
WarpStepOf(w) ==
    \/ InsertPrealloc(w)
    \/ InsertRead(w)
    \/ InsertBranch1(w)
    \/ InsertBranch2(w)
    \/ InsertAllocateSlab(w)
    \/ InsertLinkSlab(w)
    \/ RemoveRead(w)
    \/ RemoveReload(w)
    \/ RemoveClear(w)

WarpStep == \E w \in Warps : WarpStepOf(w)

Next ==
    \/ InsertCall
    \/ SearchCall
    \/ RemoveCall
    \/ WarpStep
    \/ \E w \in Warps : RemoveFault(w)
    \/ SearchStep
    \/ Synchronize

Spec == Init /\ [][Next]_vars

(***************************************************************************)
(* Insert and Remove batches over keys that fill both buckets, so that     *)
(* both buckets grow chains out of the one slab pool.                      *)
(***************************************************************************)
\* HashmapCUDA::Insert, keys from WideKeys.
InsertCallWide ==
    \E n \in 1..MaxBatch :
        /\ launches < MaxWideLaunches
        /\ n <= Cardinality(PairFree)
        /\ \E ks \in [1..n -> WideKeys] :
              Launch("insert", ks, BatchValues(n), "prealloc")

\* HashmapCUDA::Remove, keys from WideKeys.
RemoveCallWide ==
    \E n \in 1..MaxBatch :
        /\ launches < MaxWideLaunches
        /\ \E ks \in [1..n -> WideKeys] : Launch("remove", ks, << >>, "loop")

NextChains ==
    \/ InsertCallWide
    \/ RemoveCallWide
    \/ WarpStep
    \/ \E w \in Warps : RemoveFault(w)
    \/ Synchronize

SpecChains == Init /\ [][NextChains]_vars

(***************************************************************************)
(* Insert batches whose record stores reach the other warps late.  The     *)
(* stores of the prealloc are plain and no fence stands between them and   *)
(* the atomicCAS of the handle, so a warp that reads the handle out of a   *)
(* slot and then the record races with the writer: it reads the bytes      *)
(* written (InsertRead) or the bytes the block held before                 *)
(* (InsertReadStale).                                                      *)
(***************************************************************************)
\* The records warp w wrote itself.
OwnRecords(w) == { warp[w].prealloc_pair_internal_ptr[l] : l \in Lanes }

\* The lanes of warp w whose unit, read now, holds the handle of a record
\* that another warp wrote and whose stores are still on their way.
StaleLanes(w) ==
    { l \in PairLanes :
        LET ptr == ReadSlab(SrcBucket(w), Cursor(w))[l]
        IN  ptr \in pending_stores \ OwnRecords(w) }

\* The stores to record p have reached the memory every warp reads.
StoresArrive ==
    /\ kernel = "insert"
    /\ \E p \in pending_stores : pending_stores' = pending_stores \ {p}
    /\ UNCHANGED << table, double_free, batch, warp, at_launch, launches,
                    only_new_keys, slab_blocks, held_iterators, others >>

\* Insert, steps 0..4 of an iteration in which a lane compares the leader's
\* key with the earlier bytes of a record: those bytes are whatever the block
\* held, so the comparison of such a lane gives either answer (`matched`:
\* the lanes where it gave true).
InsertReadStale(w) ==
    /\ kernel = "insert"
    /\ warp[w].pc = "loop"
    /\ StaleLanes(w) # {}
    /\ \E matched \in SUBSET StaleLanes(w) :
        LET unit_data == ReadSlab(SrcBucket(w), Cursor(w))
            lane_found ==
                Ffs({ l \in PairLanes :
                        /\ unit_data[l] # EMPTY_PAIR_PTR
                        /\ IF l \in StaleLanes(w)
                           THEN l \in matched
                           ELSE cmp(extract_ptr(unit_data[l]), SrcKey(w), dsize_key_) }) - 1
            lane_empty == WarpFindEmpty(unit_data)
            next_slab_ptr == unit_data[NEXT_SLAB_PTR_LANE]
            r == [warp[w] EXCEPT !.curr_slab_ptr = Cursor(w)]
        IN  IF lane_found >= 0 \/ lane_empty >= 0 \/ next_slab_ptr = EMPTY_SLAB_PTR
            THEN warp' = [warp EXCEPT ![w] =
                     [r EXCEPT !.unit_data = unit_data,
                               !.lane_found = lane_found,
                               !.lane_empty = lane_empty,
                               !.pc = IF lane_found >= 0 THEN "branch1"
                                      ELSE IF lane_empty >= 0 THEN "branch2"
                                      ELSE "branch3"]]
            ELSE warp' = [warp EXCEPT ![w] =
                     [r EXCEPT !.curr_slab_ptr = next_slab_ptr,
                               !.prev_work_queue = WorkQueue(w)]]
    /\ UNCHANGED << table, double_free, batch, at_launch, launches, only_new_keys,
                    slab_blocks, held_iterators, pending_stores, others >>

\* HashmapCUDA::Insert, for a batch the pair pool has records for.
InsertCallRelaxed ==
    \E n \in 1..MaxBatch :
        /\ launches < MaxRelaxedLaunches
        /\ n <= Cardinality(PairFree)
        /\ \E ks \in [1..n -> Keys] :
              Launch("insert", ks, BatchValues(n), "prealloc")

\* HashmapCUDA::Remove
RemoveCallRelaxed ==
    \E n \in 1..MaxBatch :
        /\ launches < MaxRelaxedLaunches
        /\ \E ks \in [1..n -> Keys] : Launch("remove", ks, << >>, "loop")

NextRelaxed ==
    \/ InsertCallRelaxed
    \/ RemoveCallRelaxed
    \/ WarpStep
    \/ \E w \in Warps : InsertReadStale(w)
    \/ \E w \in Warps : RemoveFault(w)
    \/ StoresArrive
    \/ Synchronize

SpecRelaxed == Init /\ [][NextRelaxed]_vars

(***************************************************************************)
(* ComputeBucket on its own: keys of one to MaxHashWords words, with words  *)
(* whose top bit is set and with bytes after the last whole word.          *)
(***************************************************************************)
\* The words of the keys: 1, 2, 0x7FFFFFFF, 0x80000000, 0xFFFFFFFF.
HashWords ==
    { << 1, 0, 0, 0 >>, << 2, 0, 0, 0 >>, << 255, 255, 255, 127 >>,
      << 0, 0, 0, 128 >>, << 255, 255, 255, 255 >> }

\* The bytes after the last whole word: none, or two.
HashTails == { << >>, << 9, 128 >> }

RECURSIVE WordSeqs(_)
WordSeqs(n) ==
    IF n = 0 THEN { << >> }
    ELSE { w \o r : w \in HashWords, r \in WordSeqs(n - 1) }

HashKeys ==
    UNION { { k \o t : k \in WordSeqs(n), t \in HashTails } : n \in 1..MaxHashWords }

\* A table of num_buckets buckets for keys of Len(key) bytes is about to
\* compute the bucket of key.
InitHash ==
    /\ Constructed
    /\ slab_blocks = MaxSlabs
    /\ sync_call = NoSyncCall
    /\ odometry = ReleasedOdometry
    /\ multiscale = NoMultiScale
    /\ \E key \in HashKeys, n \in 1..MaxHashBuckets :
          hash_call = [NoHashCall EXCEPT !.pc = "called",
                                         !.key_ptr = key,
                                         !.key_size_ = Len(key),
                                         !.num_buckets_ = n]

\* HashmapCUDAContext::ComputeBucket: hash_fn_(key) % num_buckets_
ComputeBucketCall ==
    /\ hash_call.pc = "called"
    /\ LET hash == DefaultHash(hash_call.key_ptr, hash_call.key_size_)
       IN  hash_call' = [hash_call EXCEPT !.pc = "returned",
                                          !.hash = hash,
                                          !.bucket = Mod64(hash, hash_call.num_buckets_)]
    /\ UNCHANGED << table, double_free, batch, warp, at_launch, launches,
                    only_new_keys, slab_blocks, held_iterators, pending_stores,
                    sync_call, odometry, multiscale >>

NextHash == ComputeBucketCall

SpecHash == InitHash /\ [][NextHash]_vars

(***************************************************************************)
(* The key broadcast and the comparison of one iteration on their own, for *)
(* tables of several dsize_key: the leader's key is copied into the local  *)
(* array src_key[MAX_KEY_BYTESIZE] word by word, then a lane compares the   *)
(* key of the record of its unit with src_key byte by byte.                *)
(***************************************************************************)
SyncSizes == { 4, 6, 8, MaxSyncKeyBytes }

\* The key of the leader in a table of keys of n bytes.
SyncKey(n) == [i \in 1..n |-> i]

\* The keys of the record the lane compares with: the leader's key, or a key
\* that differs from it in one byte.
RecordKeys(n) ==
    { SyncKey(n) } \cup { [SyncKey(n) EXCEPT ![d] = 200] : d \in 1..n }

\* What a byte may hold that the program reads without having written it, or
\* that it wrote outside the array, when it is not the byte of the key.
JunkBytes == { 0, 170 }

InitSync ==
    /\ Constructed
    /\ slab_blocks = MaxSlabs
    /\ hash_call = NoHashCall
    /\ odometry = ReleasedOdometry
    /\ multiscale = NoMultiScale
    /\ \E n \in SyncSizes : \E rec \in RecordKeys(n) :
          sync_call = [NoSyncCall EXCEPT !.pc = "called",
                                         !.dsize_key_ = n,
                                         !.key = SyncKey(n),
                                         !.record_key = rec]

\* HashmapCUDAContext::WarpSyncKey into src_key: dsize_key_ / sizeof(int)
\* words are copied.  The bytes of src_key after them were never written;
\* the words beyond MAX_KEY_BYTESIZE are written outside the array.  Both
\* are read by cmp as whatever the memory holds then: the bytes of the key
\* (`lucky`) or others (`junk`).
WarpSyncKeyCall ==
    /\ sync_call.pc = "called"
    /\ LET n == sync_call.dsize_key_
           chunks == n \div 4
           defined(i) == i <= 4 * chunks /\ i <= MAX_KEY_BYTESIZE
       IN  \E lucky \in BOOLEAN, junk \in JunkBytes :
              sync_call' =
                  [sync_call EXCEPT
                      !.pc = "synced",
                      !.src_key =
                          [i \in 1..n |->
                              IF defined(i) \/ lucky
                              THEN sync_call.key[i]
                              ELSE junk]]
    /\ UNCHANGED << table, double_free, batch, warp, at_launch, launches,
                    only_new_keys, slab_blocks, held_iterators, pending_stores,
                    hash_call, odometry, multiscale >>

\* HashmapCUDAContext::WarpFindKey of a lane whose unit holds a record:
\* cmp(extract_ptr(ptr), key_ptr, dsize_key_)
WarpFindKeyCall ==
    /\ sync_call.pc = "synced"
    /\ sync_call' =
          [sync_call EXCEPT
              !.pc = "voted",
              !.is_lane_found =
                  cmp(sync_call.record_key, sync_call.src_key, sync_call.dsize_key_)]
    /\ UNCHANGED << table, double_free, batch, warp, at_launch, launches,
                    only_new_keys, slab_blocks, held_iterators, pending_stores,
                    hash_call, odometry, multiscale >>

NextSync == WarpSyncKeyCall \/ WarpFindKeyCall

SpecSync == InitSync /\ [][NextSync]_vars

(***************************************************************************)
(* RGBDOdometryCuda<N>: Create and Release of the device state, and the    *)
(* coarse-to-fine loop of ComputeMultiScale.  The calls are made by one    *)
(* host thread, one after the other.                                       *)
(***************************************************************************)
InitOdometry ==
    /\ Constructed
    /\ slab_blocks = MaxSlabs
    /\ hash_call = NoHashCall
    /\ sync_call = NoSyncCall
    /\ multiscale = NoMultiScale
    /\ \E option \in [1..N -> 0..MaxIterations] :
          odometry = [ReleasedOdometry EXCEPT !.option_ = option]

OdometryFrame ==
    UNCHANGED << table, double_free, batch, warp, at_launch, launches,
                 only_new_keys, slab_blocks, held_iterators, pending_stores,
                 hash_call, sync_call >>

\* A Create that takes an object of the same width for compatible.
Create_width_only(width, height) ==
    /\ multiscale.pc # "running"
    /\ odometry.calls < MaxOdometryCalls
    /\ LET called == [odometry EXCEPT !.calls = @ + 1]
           returns(ret) == [ fn |-> "Create", width |-> width, height |-> height,
                             ret |-> ret ]
       IN  IF odometry.device_ # "nullptr"
           THEN IF odometry.width_ # width
                THEN odometry' = [called EXCEPT !.last = returns(FALSE)]
                ELSE odometry' = [called EXCEPT !.last = returns(TRUE)]
           ELSE odometry' = [called EXCEPT !.device_ = "device",
                                           !.allocations = @ + 1,
                                           !.width_ = width,
                                           !.height_ = height,
                                           !.last = returns(TRUE)]
    /\ UNCHANGED multiscale
    /\ OdometryFrame

\* RGBDOdometryCuda<N>::Create
Create(width, height) ==
    /\ multiscale.pc # "running"
    /\ odometry.calls < MaxOdometryCalls
    /\ LET called == [odometry EXCEPT !.calls = @ + 1]
           returns(ret) == [ fn |-> "Create", width |-> width, height |-> height,
                             ret |-> ret ]
       IN  IF odometry.device_ # "nullptr"
           THEN IF odometry.width_ # width \/ odometry.height_ # height
                THEN odometry' = [called EXCEPT !.last = returns(FALSE)]
                ELSE odometry' = [called EXCEPT !.last = returns(TRUE)]
           ELSE odometry' = [called EXCEPT !.device_ = "device",
                                           !.allocations = @ + 1,
                                           !.width_ = width,
                                           !.height_ = height,
                                           !.last = returns(TRUE)]
    /\ UNCHANGED multiscale
    /\ OdometryFrame

\* RGBDOdometryCuda<N>::Release
Release ==
    /\ multiscale.pc # "running"
    /\ odometry.calls < MaxOdometryCalls
    /\ odometry' = [odometry EXCEPT
                       !.calls = @ + 1,
                       !.device_ = "nullptr",
                       !.width_ = 0,
                       !.height_ = 0,
                       !.last = [ fn |-> "Release", width |-> 0, height |-> 0,
                                  ret |-> FALSE ]]
    /\ UNCHANGED multiscale
    /\ OdometryFrame

\* RGBDOdometryCuda<N>::ComputeMultiScale is called on a created object.
ComputeMultiScaleCall ==
    /\ multiscale.pc # "running"
    /\ odometry.device_ # "nullptr"
    /\ odometry.calls < MaxOdometryCalls
    /\ odometry' = [odometry EXCEPT !.calls = @ + 1]
    /\ multiscale' = [NoMultiScale EXCEPT !.pc = "running", !.level = N - 1]
    /\ OdometryFrame

\* The bound of the inner loop at the level the call is at.
IterationsOnLevel ==
    odometry.option_[(N - 1 - multiscale.level) + 1]

\* An iteration after which the loop goes on whether it reported success or not.
Iterate_goes_on ==
    /\ multiscale.pc = "running"
    /\ multiscale.level >= 0
    /\ multiscale.iter < IterationsOnLevel
    /\ \E is_success \in BOOLEAN :
          LET ran == << multiscale.level, multiscale.iter, is_success >>
          IN  /\ odometry' =
                    [odometry EXCEPT !.transform_source_to_target_ = Append(@, ran)]
              /\ multiscale' =
                    [multiscale EXCEPT
                        !.iter = @ + 1,
                        !.losses_on_level = Append(@, 1),
                        !.iterations = Append(@, ran)]
    /\ OdometryFrame

\* ComputeMultiScale, one pass of the inner loop: DoSingleIteration, the
\* update of transform_source_to_target_ and of losses_on_level, and the
\* return when the iteration reported no success.
Iterate ==
    /\ multiscale.pc = "running"
    /\ multiscale.level >= 0
    /\ multiscale.iter < IterationsOnLevel
    /\ \E is_success \in BOOLEAN :
          LET ran == << multiscale.level, multiscale.iter, is_success >>
          IN  /\ odometry' =
                    [odometry EXCEPT !.transform_source_to_target_ = Append(@, ran)]
              /\ multiscale' =
                    IF is_success
                    THEN [multiscale EXCEPT
                             !.iter = @ + 1,
                             !.losses_on_level = Append(@, 1),
                             !.iterations = Append(@, ran)]
                    ELSE [multiscale EXCEPT
                             !.pc = "returned",
                             !.losses_on_level = Append(@, 1),
                             !.iterations = Append(@, ran),
                             !.is_success = FALSE,
                             !.transform = "Identity"]
    /\ OdometryFrame

\* ComputeMultiScale, the inner loop ends: the level's losses are kept and
\* the outer loop goes to the next finer level.
NextLevel ==
    /\ multiscale.pc = "running"
    /\ multiscale.level >= 0
    /\ multiscale.iter >= IterationsOnLevel
    /\ multiscale' = [multiscale EXCEPT
                         !.level = @ - 1,
                         !.iter = 0,
                         !.losses = Append(@, multiscale.losses_on_level),
                         !.losses_on_level = << >>]
    /\ UNCHANGED odometry
    /\ OdometryFrame

\* ComputeMultiScale, the outer loop ends.
ReturnTransform ==
    /\ multiscale.pc = "running"
    /\ multiscale.level < 0
    /\ multiscale' = [multiscale EXCEPT
                         !.pc = "returned",
                         !.is_success = TRUE,
                         !.transform = "transform_source_to_target_"]
    /\ UNCHANGED odometry
    /\ OdometryFrame

NextOdometry ==
    \/ \E width, height \in 1..MaxImageSide : Create(width, height)
    \/ Release
    \/ ComputeMultiScaleCall
    \/ Iterate
    \/ NextLevel
    \/ ReturnTransform

SpecOdometry == InitOdometry /\ [][NextOdometry]_vars

(***************************************************************************)
(* The table with pools that run out: a slab pool with no block to hand    *)
(* out, and Insert batches larger than the pair pool's free records.       *)
(***************************************************************************)
InitExhausted ==
    /\ Constructed
    /\ slab_blocks = 0
    /\ OthersIdle

\* HashmapCUDA::Insert, whatever the pair pool has left.
InsertCallAny ==
    \E n \in 1..MaxBatch :
        \E ks \in [1..n -> Keys] :
            Launch("insert", ks, BatchValues(n), "prealloc")

\* A lane of warp w is about to use the handle of a failed allocation as an
\* address: the write of key and value through extract_ptr of it (lines
\* 509-516), pair_allocator_ctx_.Free of it (line 547), FreeSlab of it (line
\* 613).  The access is out of the pool; it either lands in memory that is
\* not the table's (the step of the warp goes on as written) or the device
\* faults, which is this step.
InsertFault(w) ==
    /\ kernel = "insert"
    /\ \/ /\ warp[w].pc = "prealloc"
          /\ Cardinality(WorkQueue(w)) > Cardinality(PairFree)
       \/ /\ warp[w].pc = "branch1"
          /\ warp[w].prealloc_pair_internal_ptr[SrcLane(w)] = EMPTY_PAIR_PTR
       \/ /\ warp[w].pc = "branch3cas"
          /\ warp[w].new_next_slab_ptr = EMPTY_SLAB_PTR
          /\ Load(UnitPtr(SrcBucket(w), warp[w].curr_slab_ptr, NEXT_SLAB_PTR_LANE))
                 # EMPTY_SLAB_PTR
    /\ Faulted

NextExhausted ==
    \/ InsertCallAny
    \/ SearchCall
    \/ RemoveCall
    \/ WarpStep
    \/ \E w \in Warps : InsertFault(w)
    \/ \E w \in Warps : RemoveFault(w)
    \/ SearchStep
    \/ Synchronize

\* Every warp of a kernel is scheduled again and again, and the host waits
\* for the kernel.
\* (Every step of a warp changes the warp's locals, and Synchronize changes
\* kernel.)
FairScheduling ==
    /\ \A w \in Warps : WF_warp(WarpStepOf(w))
    /\ WF_warp(SearchStep)
    /\ WF_kernel(Synchronize)

SpecExhausted == InitExhausted /\ [][NextExhausted]_vars /\ FairScheduling


(***************************************************************************)
(* Queries on a quiescent table.                                           *)
(***************************************************************************)
\* A walk that gives up at the end of the slab it starts on, whether or not
\* the slab has a next slab.
SearchWalk_one_slab(T, key, slab_ptr, fuel) ==
    LET unit_data == IF slab_ptr = HEAD_SLAB_PTR
                     THEN T.bucket_list_head_[BucketOf[key]]
                     ELSE T.slab_pool[slab_ptr]
        lane_found == Ffs({ l \in PairLanes :
                              /\ unit_data[l] # EMPTY_PAIR_PTR
                              /\ cmp(T.pair_pool[unit_data[l]], key, dsize_key_) }) - 1
    IN  IF lane_found >= 0
        THEN [ iterator |-> unit_data[lane_found], mask |-> TRUE ]
        ELSE [ iterator |-> NULL_ITERATOR, mask |-> FALSE ]

\* What HashmapCUDAContext::Search returns to a warp with one request for
\* `key` on the table T: the walk of the chain of the key's bucket.  A chain
\* longer than the slab pool is a cycle, on which the walk never returns.
RECURSIVE SearchWalk(_, _, _, _)
SearchWalk(T, key, slab_ptr, fuel) ==
    LET unit_data == IF slab_ptr = HEAD_SLAB_PTR
                     THEN T.bucket_list_head_[BucketOf[key]]
                     ELSE T.slab_pool[slab_ptr]
        lane_found == Ffs({ l \in PairLanes :
                              /\ unit_data[l] # EMPTY_PAIR_PTR
                              /\ cmp(T.pair_pool[unit_data[l]], key, dsize_key_) }) - 1
    IN  IF lane_found >= 0
        THEN [ iterator |-> unit_data[lane_found], mask |-> TRUE ]
        ELSE IF unit_data[NEXT_SLAB_PTR_LANE] = EMPTY_SLAB_PTR
        THEN [ iterator |-> NULL_ITERATOR, mask |-> FALSE ]
        ELSE IF fuel = 0
        THEN [ iterator |-> NULL_ITERATOR, mask |-> "never returns" ]
        ELSE SearchWalk(T, key, unit_data[NEXT_SLAB_PTR_LANE], fuel - 1)

SearchIn(T, key) == SearchWalk(T, key, HEAD_SLAB_PTR, MaxSlabs)

\* The requests of the running kernel.
Requests == 0..(num_keys - 1)

\* The kernel `name` has run to its end and the host has not yet returned.
Done(name) ==
    /\ kernel = name
    /\ \A w \in Warps : warp[w].pc \in {"done", "absent"}

\* The requests of the running batch that carry `key`.
RequestsOf(key) == { t \in Requests : input_keys[t + 1] = key }

\* The record preallocated for request t of an Insert that has returned.
PreallocOf(t) ==
    warp[t \div WARP_WIDTH].prealloc_pair_internal_ptr[t % WARP_WIDTH]

(***************************************************************************)
(* Properties.                                                             *)
(***************************************************************************)
\* C1: at every moment at most one occupied pair slot of the whole table
\* references a record whose key bytes equal a given key.
KeyUniqueness ==
    \A k \in Keys : Cardinality(UnitsWithKey(TableNow, k)) <= 1

\* C2: an Insert request whose key is stored when the kernel is launched
\* reports false, leaves the slots with that key as they were, frees its
\* preallocated record, and a Search afterwards still finds the record that
\* was stored; this also where empty slots precede the slab holding the key.
DuplicateRejected ==
    Done("insert") =>
        \A t \in Requests :
            LET k == input_keys[t + 1]
            IN  UnitsWithKey(at_launch, k) # {} =>
                    /\ output_masks[t] = FALSE
                    /\ UnitsWithKey(TableNow, k) = UnitsWithKey(at_launch, k)
                    /\ SearchIn(TableNow, k) = SearchIn(at_launch, k)
                    /\ pair_pool[SearchIn(TableNow, k).iterator]
                           = at_launch.pair_pool[SearchIn(at_launch, k).iterator]
                    /\ \/ PreallocOf(t) \notin pair_used
                       \/ \E u \in Requests : /\ u # t
                                              /\ output_masks[u] = TRUE
                                              /\ output_iterators[u] = PreallocOf(t)

\* C3: every request of a Remove batch of pairwise distinct keys reports
\* true exactly when its key was stored at the launch, whatever the other
\* lanes of its warp asked for, and a key that was stored is stored no more.
RemovePerElement ==
    (Done("remove") /\ \A t, u \in Requests : t # u => input_keys[t + 1] # input_keys[u + 1]) =>
        \A t \in Requests :
            LET k == input_keys[t + 1]
            IN  /\ output_masks[t] = (UnitsWithKey(at_launch, k) # {})
                /\ UnitsWithKey(TableNow, k) = {}

\* C4: after a Remove request reported true for a key, a Search of the key
\* reports false (and so does a second Remove, which walks the same chain
\* with the same comparison).
RemoveThenSearch ==
    Done("remove") =>
        \A t \in Requests :
            output_masks[t] = TRUE =>
                SearchIn(TableNow, input_keys[t + 1]).mask = FALSE

\* C5: no pair record is handed to pair_allocator_ctx_.Free while it is free.
NoDoubleFree == double_free = {}


\* C6: of the requests of one Remove batch that carry the same key, stored
\* at the launch, exactly one reports true, wherever their warps are.
ExactlyOneRemoveSucceeds ==
    Done("remove") =>
        \A k \in Keys :
            (UnitsWithKey(at_launch, k) # {} /\ Cardinality(RequestsOf(k)) >= 2) =>
                Cardinality({ t \in RequestsOf(k) : output_masks[t] = TRUE }) = 1

RoundTrip ==
    kernel = "none" =>
        \A u \in DataUnits :
            Load(u) # EMPTY_PAIR_PTR =>
                LET found == SearchIn(TableNow, RecordKey(extract_ptr(Load(u))))
                IN  /\ found.mask = TRUE
                    /\ extract_ptr(found.iterator) = extract_ptr(Load(u))

\* C10: a Search request for a key that is not stored reports false with the
\* null iterator, and no request is answered with a record of another key.
SearchAbsent ==
    Done("search") =>
        \A t \in Requests :
            LET k == input_keys[t + 1]
            IN  /\ UnitsWithKey(TableNow, k) = {} =>
                      /\ output_masks[t] = FALSE
                      /\ output_iterators[t] = NULL_ITERATOR
                /\ output_masks[t] = TRUE =>
                      /\ output_iterators[t] \in pair_used
                      /\ RecordKey(extract_ptr(output_iterators[t])) = k

\* A Search batch has returned that asked for a key not stored, in a bucket
\* whose chain has a second slab, and for a key stored in that chain.
SearchAbsentAnswered ==
    /\ Done("search")
    /\ \E t, u \in Requests :
          /\ UnitsWithKey(TableNow, input_keys[t + 1]) = {}
          /\ bucket_list_head_[BucketOf[input_keys[t + 1]]][NEXT_SLAB_PTR_LANE] # EMPTY_SLAB_PTR
          /\ output_masks[t] = FALSE
          /\ BucketOf[input_keys[u + 1]] = BucketOf[input_keys[t + 1]]
          /\ output_masks[u] = TRUE


\* The keys of the records the head slab of bucket b held in the table T.
HeadKeys(T, b) ==
    { RecordKey(T.pair_pool[T.bucket_list_head_[b][l]]) :
        l \in { m \in PairLanes : T.bucket_list_head_[b][m] # EMPTY_PAIR_PTR } }

\* The head slab of bucket b is full of distinct keys in the table T and has
\* no next slab.
HeadFull(T, b) ==
    /\ \A l \in PairLanes : T.bucket_list_head_[b][l] # EMPTY_PAIR_PTR
    /\ Cardinality(HeadKeys(T, b)) = Cardinality(PairLanes)
    /\ T.bucket_list_head_[b][NEXT_SLAB_PTR_LANE] = EMPTY_SLAB_PTR

\* The request t of the running Insert brings one more key to a bucket whose
\* head slab is full and unchained, is the only request for that bucket, and
\* the slab pool has a free block.
GrowsChain(t) ==
    LET k == input_keys[t + 1]
    IN  /\ HeadFull(at_launch, BucketOf[k])
        /\ k \notin HeadKeys(at_launch, BucketOf[k])
        /\ \A u \in Requests \ {t} : BucketOf[input_keys[u + 1]] # BucketOf[k]
        /\ at_launch.slab_used # SlabHandles

\* C11: an Insert of one more key into a bucket whose full head slab has no
\* next slab allocates one slab, links it as the head's next slab and reports
\* true, and a Search then finds that key and every key of the head slab.
ChainGrowth ==
    Done("insert") =>
        \A t \in Requests :
            GrowsChain(t) =>
                LET k == input_keys[t + 1]
                    b == BucketOf[k]
                    next == bucket_list_head_[b][NEXT_SLAB_PTR_LANE]
                IN  /\ output_masks[t] = TRUE
                    /\ next \in slab_used \ at_launch.slab_used
                    /\ num_keys = 1 => slab_used = at_launch.slab_used \cup {next}
                    /\ slab_pool[next][NEXT_SLAB_PTR_LANE] = EMPTY_SLAB_PTR
                    /\ SearchIn(TableNow, k) = [ iterator |-> output_iterators[t], mask |-> TRUE ]
                    /\ \A h \in HeadKeys(at_launch, b) :
                          SearchIn(TableNow, h) = SearchIn(at_launch, h)

\* An Insert batch has returned that chained a slab to a full head slab while
\* another bucket held a key.
ChainGrown ==
    /\ Done("insert")
    /\ \E t \in Requests :
          /\ GrowsChain(t)
          /\ output_masks[t] = TRUE
          /\ \E b \in Buckets : /\ b # BucketOf[input_keys[t + 1]]
                                /\ HeadKeys(TableNow, b) # {}


\* The requests of an Insert that has returned whose Allocate found the pair
\* pool empty.
FailedAllocations == { t \in Requests : PreallocOf(t) = EMPTY_PAIR_PTR }

\* C12: an Insert request whose allocation of a pair record failed reports
\* false with the null iterator and leaves the slots as they are, and the
\* other requests of the batch have their own results.
ExhaustionReported ==
    Done("insert") =>
        /\ \A t \in FailedAllocations :
              /\ output_masks[t] = FALSE
              /\ output_iterators[t] = NULL_ITERATOR
        /\ \A t \in Requests : output_writes[t] = 1
        /\ \A u \in DataUnits : Load(u) # EMPTY_PAIR_PTR => Load(u) \in pair_used

\* C13: under fair scheduling of the warps every batch that was launched
\* returns (or the device faults), also when the slab pool is exhausted.
BatchCompletes ==
    (kernel \in {"insert", "search", "remove"}) ~> (kernel \in {"none", "fault"})


\* C14: every request of a batch has one lane of one warp, its output
\* entries are written once and only once; a warp returns without work only
\* when none of its lanes has a request; the lanes without a request of a
\* partly filled warp are never active, write no entry, and do not bring the
\* kernel down.
RequestPartition ==
    /\ \A t \in Requests :
          Cardinality({ << w, l >> \in Warps \X Lanes : Tid(w, l) = t }) = 1
    /\ \A t \in Tids :
          /\ output_writes[t] <= 1
          /\ t >= num_keys => output_writes[t] = 0
    /\ \A w \in Warps :
          /\ (kernel # "none" /\ Tid(w, 0) < num_keys /\ warp[w].pc = "done") =>
                \A l \in Lanes : Tid(w, l) < num_keys => output_writes[Tid(w, l)] = 1
          /\ Tid(w, 0) >= num_keys => warp[w].pc \in {"done", "absent"}
          /\ \A l \in Lanes : Tid(w, l) >= num_keys => ~warp[w].lane_active[l]
    /\ kernel # "fault"


\* C15: the iterator a successful Insert(k) returns is the handle stored in
\* a slot whose record holds k, and as long as no Remove(k) has succeeded
\* every Search(k) finds the key and returns that very iterator.
IteratorStability ==
    /\ Done("insert") =>
          \A t \in Requests : output_masks[t] =>
              /\ output_iterators[t] \in PairHandles
              /\ \E u \in DataUnits : Load(u) = output_iterators[t]
              /\ RecordKey(extract_ptr(output_iterators[t])) = input_keys[t + 1]
    /\ Done("search") =>
          \A t \in Requests : \A it \in held_iterators[input_keys[t + 1]] :
              output_masks[t] /\ output_iterators[t] = it


(***************************************************************************)
(* The debug queries of the host: CountElemsPerBucket and                  *)
(* ComputeLoadFactor.  They read the table and change nothing.             *)
(***************************************************************************)
RECURSIVE SumOver(_, _)
\* std::accumulate over the entries of f with index in S, from 0.
SumOver(f, S) ==
    IF S = {} THEN 0
    ELSE LET x == CHOOSE y \in S : TRUE IN f[x] + SumOver(f, S \ {x})

\* __popc(__ballot_sync(PAIR_PTR_LANES_MASK, src_unit_data != EMPTY_PAIR_PTR)):
\* the lanes of the mask that read an occupied unit; the next lane is not
\* in the mask.
PopcOccupied(unit_data) ==
    Cardinality({ l \in PairLanes : unit_data[l] # EMPTY_PAIR_PTR })

RECURSIVE CountFollowing(_)
\* The `while (next != EMPTY_SLAB_PTR)` loop of CountElemsPerBucketKernel.
CountFollowing(next) ==
    IF next = EMPTY_SLAB_PTR
    THEN 0
    ELSE PopcOccupied(slab_pool[next])
            + CountFollowing(slab_pool[next][NEXT_SLAB_PTR_LANE])

\* CountElemsPerBucketKernel, the warp wid: the count lane 0 writes.
CountElemsPerBucketKernel(wid) ==
    PopcOccupied(bucket_list_head_[wid])
        + CountFollowing(bucket_list_head_[wid][NEXT_SLAB_PTR_LANE])

\* HashmapCUDA::CountElemsPerBucket: the buffer filled with 0, one warp per
\* bucket in blocks of four warps, the buffer copied back.
CountElemsPerBucket ==
    LET blocksize == 4 * WARP_WIDTH
        num_blocks == (num_buckets_ * WARP_WIDTH + blocksize - 1) \div blocksize
        launched == 0..(num_blocks * 4 - 1)
    IN  [ b \in Buckets |-> IF b \in launched
                            THEN CountElemsPerBucketKernel(b)
                            ELSE 0 ]

\* InternalNodeManager::CountSlabsPerSuperblock: the slabs the slab allocator
\* holds as allocated, per super block (the model has one super block).
CountSlabsPerSuperblock == << Cardinality(slab_used) >>

\* A ComputeLoadFactor that leaves the head slabs out of the slab count.
ComputeLoadFactor_no_heads ==
    LET elems_per_bucket == CountElemsPerBucket
        total_elems_stored == SumOver(elems_per_bucket, Buckets)
        slabs_per_bucket == CountSlabsPerSuperblock
        total_slabs_stored == SumOver(slabs_per_bucket, DOMAIN slabs_per_bucket)
    IN  [ num |-> total_elems_stored, den |-> total_slabs_stored * WARP_WIDTH ]

\* HashmapCUDA::ComputeLoadFactor.  The double it returns is the quotient
\* num / den, kept here as the two integers it is computed from.
ComputeLoadFactor ==
    LET elems_per_bucket == CountElemsPerBucket
        total_elems_stored == SumOver(elems_per_bucket, Buckets)
        slabs_per_bucket == CountSlabsPerSuperblock
        total_slabs_stored ==
            num_buckets_ + SumOver(slabs_per_bucket, DOMAIN slabs_per_bucket)
    IN  [ num |-> total_elems_stored, den |-> total_slabs_stored * WARP_WIDTH ]

\* No kernel runs: the state in which the host may call the queries.
Quiescent == kernel = "none"

\* The slabs of bucket b's chain, the head slab (HEAD_SLAB_PTR) included.
ChainOf(b) ==
    LET NextOf(s) == IF s = HEAD_SLAB_PTR
                     THEN bucket_list_head_[b][NEXT_SLAB_PTR_LANE]
                     ELSE slab_pool[s][NEXT_SLAB_PTR_LANE]
        Closed(S) == /\ HEAD_SLAB_PTR \in S
                     /\ \A s \in S : NextOf(s) # EMPTY_SLAB_PTR => NextOf(s) \in S
    IN  CHOOSE S \in SUBSET (SlabHandles \cup {HEAD_SLAB_PTR}) :
            /\ Closed(S)
            /\ \A R \in SUBSET S : Closed(R) => R = S

\* The occupied data slots of bucket b's chain.
OccupiedSlots(b) ==
    { u \in DataUnits :
        /\ Load(u) # EMPTY_PAIR_PTR
        /\ \/ u[1] = "head" /\ u[2] = b
           \/ u[1] = "node" /\ u[2] \in ChainOf(b) }

\* The keys that are stored in the table.
StoredKeys == { k \in Keys : UnitsWithKey(TableNow, k) # {} }

\* The data slots of a slab.
slotsPerSlab == Cardinality(PairLanes)

\* C16: in every quiescent state ComputeLoadFactor returns exactly
\* occupiedSlotCount / (totalSlabs * slotsPerSlab), occupiedSlotCount being
\* the sum of CountElemsPerBucket and totalSlabs the head slabs plus the
\* allocated chain slabs.
LoadFactorFormula ==
    Quiescent =>
        LET occupiedSlotCount == SumOver(CountElemsPerBucket, Buckets)
            totalSlabs == num_buckets_ + Cardinality(slab_used)
        IN  ComputeLoadFactor.num * (totalSlabs * slotsPerSlab)
                = occupiedSlotCount * ComputeLoadFactor.den

\* C17: in every state Insert and Remove batches lead to, the value
\* ComputeLoadFactor returns is a number from 0 to 1.
LoadFactorBounds ==
    Quiescent =>
        /\ ComputeLoadFactor.den > 0
        /\ 0 <= ComputeLoadFactor.num
        /\ ComputeLoadFactor.num <= ComputeLoadFactor.den

\* C17 witness: the load factor of a table with a chained slab and two
\* stored records, after a Remove batch.
LoadFactorTaken ==
    /\ Quiescent
    /\ slab_used # {}
    /\ ComputeLoadFactor.num >= 2
    /\ Cardinality(pair_used) < launches

\* C18: on a quiescent table the count CountElemsPerBucket returns for a
\* bucket is the number of occupied data slots of the bucket's chain, and
\* the counts of all buckets add up to the number of keys stored.
CountsMatch ==
    Quiescent =>
        /\ \A b \in Buckets : CountElemsPerBucket[b] = Cardinality(OccupiedSlots(b))
        /\ SumOver(CountElemsPerBucket, Buckets) = Cardinality(StoredKeys)


\* GetIteratorsKernel.  A warp beyond the buckets returns; for the others
\* all that follows the test is inside comments, so no warp reads a unit,
\* adds to the count or writes an iterator: both buffers stay as they were.
GetIteratorsKernel(iterators, iterator_count, num_buckets) ==
    [ iterators |-> iterators, iterator_count |-> iterator_count ]

\* HashmapCUDA::GetIterators, of which the header has the declaration only:
\* the count set to 0, the kernel launched with a warp per bucket, the
\* iterators written and their count handed back.
GetIterators ==
    LET r == GetIteratorsKernel(<< >>, 0, num_buckets_)
    IN  [ iterators |-> r.iterators, num_iterators |-> r.iterator_count ]

\* C19: on a quiescent table GetIterators hands back the internal pointers
\* of the occupied data slots of all buckets and all chained slabs, each
\* once, and their count is the number of keys stored.
IteratorsCollected ==
    Quiescent =>
        LET r == GetIterators
        IN  /\ Len(r.iterators) = r.num_iterators
            /\ { r.iterators[i] : i \in DOMAIN r.iterators }
                  = { Load(u) : u \in UNION { OccupiedSlots(b) : b \in Buckets } }
            /\ \A i, j \in DOMAIN r.iterators : i # j => r.iterators[i] # r.iterators[j]
            /\ r.num_iterators = Cardinality(StoredKeys)


\* The lanes of the running kernel that carry a request.
RequestLanes == { wl \in Warps \X Lanes : Tid(wl[1], wl[2]) < num_keys }

FreshTable ==
    \/ launches = 0
    \/ launches = 1 /\ kernel \in {"search", "remove"}

\* C21: directly after construction every data slot and every next slot of
\* every head slab is EMPTY; a Search or Remove of any key on that table
\* reports success=false, and CountElemsPerBucket is 0 for every bucket.
InitialState ==
    FreshTable =>
        /\ \A b \in Buckets : \A l \in Lanes : bucket_list_head_[b][l] = EMPTY_PAIR_PTR
        /\ \A b \in Buckets : bucket_list_head_[b][NEXT_SLAB_PTR_LANE] = EMPTY_SLAB_PTR
        /\ \A b \in Buckets : CountElemsPerBucket[b] = 0
        /\ \A t \in Tids : ~output_masks[t]
        /\ \A t \in Tids : output_iterators[t] = NULL_ITERATOR

\* C21 witness: a Remove batch, the first launch on the table, has run to
\* its end and every request has its answer.
FreshRemoveAnswered ==
    /\ FreshTable
    /\ Done("remove")
    /\ num_keys >= 2
    /\ \A t \in Requests : output_writes[t] = 1


\* C22: in every state, whatever the order of the steps of the warps, a data
\* slot is EMPTY or holds the handle of a record the pair allocator holds as
\* allocated.
NoDanglingSlot ==
    \A u \in DataUnits : Load(u) # EMPTY_PAIR_PTR => Load(u) \in pair_used

\* C22 witness: two warps run Remove; a record has been freed and its slot
\* cleared while another slot still holds a record.
SlotClearedAmongOthers ==
    /\ kernel = "remove"
    /\ \E w \in Warps : warp[w].pc = "done"
    /\ \E w \in Warps : warp[w].pc \in {"loop", "found", "cas"}
    /\ \E k \in Keys : UnitsWithKey(at_launch, k) # {} /\ UnitsWithKey(TableNow, k) = {}
    /\ \E u \in DataUnits : Load(u) # EMPTY_PAIR_PTR


\* The data slots that hold the handle ptr.
SlotsHolding(ptr) == { u \in DataUnits : Load(u) = ptr }

\* C23: whenever no batch is in flight, the records the pair allocator holds
\* as allocated are the records the occupied data slots reference, and each
\* of them is referenced by exactly one slot.
RecordConservation ==
    Quiescent =>
        /\ pair_used = { Load(u) : u \in { v \in DataUnits : Load(v) # EMPTY_PAIR_PTR } }
        /\ \A p \in pair_used : Cardinality(SlotsHolding(p)) = 1

\* C23 witness: a quiescent table after a batch in which a record was
\* allocated and given back, with records stored in a head and a chained slab.
RecordsAccounted ==
    /\ Quiescent
    /\ launches >= 2
    /\ Cardinality(pair_used) >= 2
    /\ \E p \in pair_used : \E u \in SlotsHolding(p) : u[1] = "node"
    /\ \E p \in PairHandles \ pair_used : \E q \in pair_used : q > p


\* The data slots the step changes.
SlotsChanged == { u \in DataUnits : Load(u)' # Load(u) }

\* The records the step hands to pair_allocator_ctx_.Free.
RecordsFreed == (pair_used \ pair_used') \cup (double_free' \ double_free)

\* A step of the running Remove kernel (not its fault, not its return).
RemoveKernelStep == kernel = "remove" /\ kernel' = "remove"

\* The slot a step of Remove clears held a record with the key of the
\* request of the warp that took the step.
ClearsOwnKey ==
    RemoveKernelStep =>
        \A u \in SlotsChanged :
            /\ Load(u)' = EMPTY_PAIR_PTR
            /\ \E w \in Warps :
                  /\ warp[w].pc = "cas"
                  /\ warp'[w] # warp[w]
                  /\ RecordKey(extract_ptr(Load(u))) = KeyPtr(w, SrcLane(w))

\* C24: in every order of the steps, a Remove(k) request sets a slot to
\* EMPTY only if the record the slot references at the instant of the CAS
\* has key k, and the record it then frees is the one whose handle the CAS
\* took out of the slot.
RemoveOwnKey ==
    [][/\ ClearsOwnKey
       /\ RemoveKernelStep =>
              RecordsFreed \subseteq { Load(u) : u \in SlotsChanged }]_vars


\* The next slot of slab s of bucket b's chain (s = HEAD_SLAB_PTR: the head).
NextSlab(b, s) ==
    IF s = HEAD_SLAB_PTR
    THEN bucket_list_head_[b][NEXT_SLAB_PTR_LANE]
    ELSE slab_pool[s][NEXT_SLAB_PTR_LANE]

\* The slabs of the slab pool linked into bucket b's chain.
LinkedSlabs(b) == ChainOf(b) \ {HEAD_SLAB_PTR}

\* C25: in every state each bucket's chain, followed from the head slab
\* through the next slots, is finite and without a cycle: it ends at the one
\* slab of the chain whose next slot is EMPTY_SLAB, every slab of it is the
\* next slab of exactly one slab of it, and no slab is in the chains of two
\* buckets.
ChainShape ==
    /\ \A b \in Buckets :
          /\ Cardinality({ s \in ChainOf(b) : NextSlab(b, s) = EMPTY_SLAB_PTR }) = 1
          /\ \A s \in LinkedSlabs(b) :
                Cardinality({ r \in ChainOf(b) : NextSlab(b, r) = s }) = 1
    /\ \A b, c \in Buckets : b # c => LinkedSlabs(b) \cap LinkedSlabs(c) = {}

\* C25 witness: both buckets have a chained slab, and an Insert is at work.
BothBucketsChained ==
    /\ \A b \in Buckets : LinkedSlabs(b) # {}
    /\ kernel = "insert"
    /\ \E w \in Warps : warp[w].pc \in {"branch3", "branch3cas"}


\* The warps that are between their AllocateSlab and their CAS on the tail.
Installing == { w \in Warps : kernel = "insert" /\ warp[w].pc = "branch3cas" }

\* C26: when several warps try to extend the same chain tail, one CAS links
\* its slab and every other warp gives its slab back; a slab held as
\* allocated is linked in one chain or is the fresh slab of a warp that has
\* not yet done its CAS, a linked slab is never free, and after the batch
\* every allocated slab is linked and the losing requests are stored.
SlabInstallRace ==
    /\ \A b \in Buckets : LinkedSlabs(b) \subseteq slab_used
    /\ \A s \in slab_used :
          \/ Cardinality({ b \in Buckets : s \in LinkedSlabs(b) }) = 1
          \/ /\ \A b \in Buckets : s \notin LinkedSlabs(b)
             /\ \E w \in Installing : warp[w].new_next_slab_ptr = s
    /\ (kernel \in {"none", "remove"} \/ Done("insert")) =>
          slab_used = UNION { LinkedSlabs(b) : b \in Buckets }
    /\ Done("insert") =>
          \A t \in Requests :
              /\ output_writes[t] = 1
              /\ UnitsWithKey(TableNow, input_keys[t + 1]) # {}

\* C26 witness: a warp holds a fresh slab for a tail to which another warp
\* has already linked its own.
InstallRaceLost ==
    \E w \in Installing :
        LET tail == UnitPtr(SrcBucket(w), warp[w].curr_slab_ptr, NEXT_SLAB_PTR_LANE)
        IN  /\ warp[w].new_next_slab_ptr # EMPTY_SLAB_PTR
            /\ Load(tail) # EMPTY_SLAB_PTR
            /\ Load(tail) # warp[w].new_next_slab_ptr

\* C27: a step changes a data slot only from EMPTY to a record handle, in an
\* Insert kernel, or from a record handle to EMPTY, in a Remove kernel, one
\* slot in a step (the one compare-and-swap of the step); no slot goes from
\* one handle to another and Insert writes into no occupied slot.
SlotTransitions ==
    [][kernel' # "fault" =>
          /\ Cardinality(SlotsChanged) <= 1
          /\ \A u \in SlotsChanged :
                \/ /\ kernel = "insert"
                   /\ Load(u) = EMPTY_PAIR_PTR
                   /\ Load(u)' \in PairHandles
                \/ /\ kernel = "remove"
                   /\ Load(u) \in PairHandles
                   /\ Load(u)' = EMPTY_PAIR_PTR]_vars

\* C27 witness: an Insert warp is about to do its CAS on a slot it read as
\* EMPTY and that another warp has filled since.
InsertFindsSlotTaken ==
    /\ kernel = "insert"
    /\ \E w \in Warps :
          /\ warp[w].pc = "branch2"
          /\ Load(UnitPtr(SrcBucket(w), warp[w].curr_slab_ptr, warp[w].lane_empty))
                # EMPTY_PAIR_PTR


\* The warps that take the step: warps inside a kernel whose locals change.
Stepping ==
    { w \in Warps : /\ kernel' = kernel
                    /\ warp[w].pc \notin {"done", "absent"}
                    /\ warp'[w] # warp[w] }

\* The lanes of warp w whose request the step ends.
Finished(w) == { l \in Lanes : warp[w].lane_active[l] /\ ~warp'[w].lane_active[l] }

\* C28: in every iteration of the Insert, Search and Remove loops the active
\* flag, the result iterator and the result mask of every lane other than
\* the elected leader stay as they were.
OnlyLeaderResolved ==
    [][\A w \in Stepping : \A l \in Lanes \ {SrcLane(w)} :
          /\ warp'[w].lane_active[l] = warp[w].lane_active[l]
          /\ warp'[w].iterator[l] = warp[w].iterator[l]
          /\ warp'[w].mask[l] = warp[w].mask[l]]_vars


\* C29: in each iteration the leader is the lowest-numbered lane whose
\* request is still active, the iteration works on the leader's key, and a
\* request ends only as the lowest-numbered active one: within a warp the
\* requests end in increasing lane order, none before the lower ones.
LeaderOrder ==
    /\ [](\A w \in Warps : WorkQueue(w) # {} =>
              /\ SrcLane(w) = Min(WorkQueue(w))
              /\ SrcKey(w) = KeyPtr(w, Min(WorkQueue(w))))
    /\ [][\A w \in Stepping : Finished(w) \subseteq {Min(WorkQueue(w))}]_vars


\* The warps at the top of their loop, with a request still active.
AtLoopTop == { w \in Warps : warp[w].pc = "loop" /\ WorkQueue(w) # {} }

\* The warps between the read of an iteration and its end.
InIteration ==
    { w \in Warps : warp[w].pc \in {"branch1", "branch2", "branch3", "branch3cas",
                                    "found", "cas"} }

\* C30: whenever the active lanes of a warp differ from those of the
\* iteration before, the cursor is the head slab of the new leader's bucket;
\* the slab an iteration reads, and the slab it then works on, is a slab of
\* the chain of the leader's bucket.
CursorReset ==
    /\ \A w \in AtLoopTop :
          /\ warp[w].prev_work_queue # WorkQueue(w) => Cursor(w) = HEAD_SLAB_PTR
          /\ Cursor(w) \in ChainOf(SrcBucket(w))
    /\ \A w \in InIteration : warp[w].curr_slab_ptr \in ChainOf(SrcBucket(w))

\* C30 witness: a request has ended on a chained slab of its bucket and the
\* next leader of the warp, with a key of the other bucket, is about to read.
NewLeaderOtherBucket ==
    \E w \in AtLoopTop :
        /\ warp[w].prev_work_queue # {}
        /\ warp[w].prev_work_queue # WorkQueue(w)
        /\ warp[w].curr_slab_ptr # HEAD_SLAB_PTR
        /\ warp[w].curr_slab_ptr \notin ChainOf(SrcBucket(w))


\* The handles a warp has read out of the data slots of a slab.
HandlesRead(w) == { warp[w].unit_data[l] : l \in PairLanes } \ {EMPTY_PAIR_PTR}

\* In the order of the writing lane: every record the running Insert kernel
\* allocated holds the whole key and the whole value of a request of the
\* batch, and a handle is in a slot only after that.
RecordWrittenBeforeCAS ==
    kernel = "insert" =>
        \A u \in DataUnits :
            Load(u) \in pending_stores =>
                \E t \in 0..(num_keys - 1) :
                    pair_pool[Load(u)] = input_keys[t + 1] \o input_values[t + 1]

\* C31: write before publish: a record is written in full before the CAS
\* that stores its handle, and a handle a warp has read from a slot refers to
\* a record whose key and value bytes, as that warp reads them, are the ones
\* written.
WriteBeforePublish ==
    /\ RecordWrittenBeforeCAS
    /\ \A w \in Warps : HandlesRead(w) \cap pending_stores \subseteq OwnRecords(w)


\* The pair lanes of the slab warp w read that hold a record with the
\* leader's key, and those that are empty.
MatchingLanes(w) ==
    { l \in PairLanes :
        /\ warp[w].unit_data[l] # EMPTY_PAIR_PTR
        /\ RecordKey(pair_pool[warp[w].unit_data[l]]) = SrcKey(w) }

EmptyLanes(w) == { l \in PairLanes : warp[w].unit_data[l] = EMPTY_PAIR_PTR }

\* The slab warp w read is a full tail for the leader's key.
FullTail(w) ==
    /\ MatchingLanes(w) = {}
    /\ EmptyLanes(w) = {}
    /\ warp[w].unit_data[NEXT_SLAB_PTR_LANE] = EMPTY_SLAB_PTR

\* The warps of an Insert kernel that take, in this step, the branch that
\* advances to the next slab.
Advancing ==
    { w \in Warps :
        /\ kernel = "insert"
        /\ warp[w].pc = "loop"
        /\ warp'[w].pc = "loop"
        /\ warp'[w] # warp[w] }

\* C32: an Insert request asks the slab allocator for a slab only when the
\* slab it just read has no slot with its key, no empty data slot and an empty
\* next slot.  A request that found no slot with its key and does not
\* allocate takes the first empty data slot of the slab it read or, when
\* there is none, moves the cursor to the next slab the slab names.
AllocateOnlyAtFullTail ==
    /\ [](\A w \in Warps :
            /\ warp[w].pc \in {"branch3", "branch3cas"} => FullTail(w)
            /\ warp[w].pc = "branch2" =>
                  /\ MatchingLanes(w) = {}
                  /\ EmptyLanes(w) # {}
                  /\ warp[w].lane_empty = Min(EmptyLanes(w))
            /\ warp[w].pc = "branch1" => MatchingLanes(w) # {})
    /\ [][/\ slab_used' \ slab_used # {} =>
                \E w \in Warps :
                    /\ warp[w].pc = "branch3"
                    /\ slab_used' \ slab_used = {warp'[w].new_next_slab_ptr}
          /\ \A w \in Advancing :
                LET unit_data == ReadSlab(SrcBucket(w), Cursor(w))
                IN  /\ \A l \in PairLanes :
                          /\ unit_data[l] # EMPTY_PAIR_PTR
                          /\ RecordKey(pair_pool[unit_data[l]]) # SrcKey(w)
                    /\ unit_data[NEXT_SLAB_PTR_LANE] # EMPTY_SLAB_PTR
                    /\ warp'[w].curr_slab_ptr = unit_data[NEXT_SLAB_PTR_LANE]
                    /\ slab_used' = slab_used]_vars

\* C32 witness: a request has got a slab from the allocator after reading a
\* full tail, and another request of the table has advanced over a linked
\* slab to a chained slab.
AllocatedAtFullTail ==
    /\ \E w \in Warps :
          /\ warp[w].pc = "branch3cas"
          /\ warp[w].new_next_slab_ptr \in slab_used
          /\ FullTail(w)
    /\ \E w \in Warps :
          /\ kernel = "insert"
          /\ warp[w].pc \in {"branch1", "branch2", "branch3"}
          /\ warp[w].curr_slab_ptr # HEAD_SLAB_PTR


\* The units, data and next, of the slabs of bucket b's chain.
ChainUnits(b) ==
    { << "head", b, l >> : l \in Lanes }
        \cup { << "node", c, l >> : c \in LinkedSlabs(b), l \in Lanes }

\* The bucket of the key of the request that leads warp w.
LeaderBucket(w) == BucketOf[KeyPtr(w, SrcLane(w))]

\* The units of the table, data or next, that the step writes.
UnitsWritten ==
    { u \in { << "head", b, l >> : b \in Buckets, l \in Lanes }
              \cup { << "node", c, l >> : c \in SlabHandles, l \in Lanes } :
        Load(u)' # Load(u) }

\* C33: every occupied data slot lies in the chain of the bucket
\* ComputeBucket gives for the key of the record it refers to, and a request
\* for key k reads and writes only units of the chain of ComputeBucket(k).
BucketPlacement ==
    /\ [](/\ \A u \in DataUnits :
                Load(u) # EMPTY_PAIR_PTR =>
                    /\ Load(u) \in pair_used
                    /\ u \in ChainUnits(BucketOf[RecordKey(pair_pool[Load(u)])])
          /\ \A w \in AtLoopTop :
                \A l \in Lanes :
                    UnitPtr(SrcBucket(w), Cursor(w), l) \in ChainUnits(LeaderBucket(w))
          /\ \A w \in InIteration :
                \A l \in Lanes :
                    UnitPtr(SrcBucket(w), warp[w].curr_slab_ptr, l)
                        \in ChainUnits(LeaderBucket(w)))
    /\ [][(kernel' # "fault" /\ UnitsWritten # {}) =>
              \E w \in Stepping : UnitsWritten \subseteq ChainUnits(LeaderBucket(w))]_vars

\* C33 witness: both buckets hold records, bucket 0 in a chained slab too,
\* and a Remove request is about to clear a slot of the chained slab while
\* the other warp works on a key of the other bucket.
RequestsInBothBuckets ==
    /\ kernel = "remove"
    /\ \A b \in Buckets : OccupiedSlots(b) # {}
    /\ \E w, v \in Warps :
          /\ warp[w].pc = "cas"
          /\ warp[w].curr_slab_ptr # HEAD_SLAB_PTR
          /\ v # w
          /\ WorkQueue(v) # {}
          /\ LeaderBucket(v) # LeaderBucket(w)


\* C34: a Search batch, from its launch to its return and whatever its keys
\* and answers, leaves every data slot, every next slot, every pair record
\* and the free state of both allocators as they were.
SearchReadOnly ==
    /\ [](kernel = "search" => TableNow = at_launch)
    /\ [][(kernel = "search" \/ kernel' = "search") =>
              UNCHANGED << bucket_list_head_, slab_pool, slab_used, pair_pool,
                           pair_used, double_free >>]_vars

\* C34 witness: a Search batch over a table with a chained slab has answered
\* all its requests, some found and some not.
SearchAnswered ==
    /\ kernel = "search"
    /\ \A w \in Warps : warp[w].pc \in {"done", "absent"}
    /\ slab_used # {}
    /\ \E t \in 0..(num_keys - 1) : output_masks[t]
    /\ \E t \in 0..(num_keys - 1) : ~output_masks[t]


\* C35: a Remove request that reports success = false changes no data slot
\* and no next slot and frees no pair record: a step of a Remove kernel that
\* writes a unit or frees a record is the last step of one request, and that
\* request reports success = true.
FailedRemoveUnchanged ==
    [][RemoveKernelStep =>
          \A w \in Stepping :
              \/ /\ UnitsWritten = {}
                 /\ RecordsFreed = {}
                 /\ UNCHANGED table
              \/ /\ Finished(w) = {SrcLane(w)}
                 /\ warp'[w].mask[SrcLane(w)]]_vars

\* C35 witness: two warps of a Remove batch had a request for one key that
\* was stored; both have returned, one with success and one without.
RemoveLostToOtherWarp ==
    /\ kernel = "remove"
    /\ \A w \in Warps : warp[w].pc \in {"done", "absent"}
    /\ \E t, u \in 0..(num_keys - 1) :
          /\ t \div WARP_WIDTH # u \div WARP_WIDTH
          /\ input_keys[t + 1] = input_keys[u + 1]
          /\ UnitsWithKey(at_launch, input_keys[t + 1]) # {}
          /\ output_masks[t]
          /\ ~output_masks[u]


\* The next units of the table.
NextUnits ==
    { << "head", b, NEXT_SLAB_PTR_LANE >> : b \in Buckets }
        \cup { << "node", c, NEXT_SLAB_PTR_LANE >> : c \in SlabHandles }

\* C36: chains only grow.  Remove writes no next slot and frees no slab; a
\* next slot changes only from EMPTY_SLAB to a slab handle, hence once; the
\* slabs of a bucket's chain stay in it and stay allocated, and there is a
\* head slab for every bucket all along.
ChainsOnlyGrow ==
    [][kernel' # "fault" =>
          /\ \A u \in NextUnits :
                Load(u)' # Load(u) =>
                    /\ kernel = "insert"
                    /\ Load(u) = EMPTY_SLAB_PTR
                    /\ Load(u)' \in SlabHandles
          /\ kernel = "remove" =>
                /\ slab_used' = slab_used
                /\ \A u \in NextUnits : Load(u)' = Load(u)
          /\ \A b \in Buckets :
                /\ ChainOf(b) \subseteq ChainOf(b)'
                /\ LinkedSlabs(b) \subseteq slab_used'
          /\ DOMAIN bucket_list_head_' = Buckets]_vars

\* C36 witness: a Remove batch has cleared a data slot of a chained slab, and
\* the slab is still linked and allocated.
ClearedSlabStaysLinked ==
    /\ kernel = "remove"
    /\ \E b \in Buckets : \E c \in LinkedSlabs(b) : \E l \in PairLanes :
          /\ at_launch.slab_pool[c][l] # EMPTY_PAIR_PTR
          /\ slab_pool[c][l] = EMPTY_PAIR_PTR
          /\ c \in slab_used


\* C37: the default hash of a key of keySize bytes starts at
\* 14695981039346656037 and, for each of the floor(keySize / 4) words in
\* order, becomes ((hash XOR word) * 1099511628211) mod 2^64, the 32 bits of
\* the word XORed into the low 32 bits of the hash; ComputeBucket is that
\* hash mod num_buckets.
DefaultHashArithmetic ==
    LET Low32(key, i) ==
            << key[4 * i + 1], key[4 * i + 2], key[4 * i + 3], key[4 * i + 4],
               0, 0, 0, 0 >>
        RECURSIVE Rounds(_, _, _, _)
        Rounds(key, hash, i, chunks) ==
            IF i >= chunks THEN hash
            ELSE Rounds(key, Mul64(Xor64(hash, Low32(key, i)), HashPrime),
                        i + 1, chunks)
        stated == Rounds(hash_call.key_ptr, HashOffsetBasis, 0,
                         hash_call.key_size_ \div 4)
    IN  hash_call.pc = "returned" =>
            /\ hash_call.hash = stated
            /\ hash_call.bucket = Mod64(stated, hash_call.num_buckets_)


\* C38: after the broadcast the key every lane compares slot records with
\* is the leader's key in all its keySize bytes, whatever the keySize, and
\* the vote takes two keys for equal exactly when all their keySize bytes
\* are equal.
KeyBroadcast ==
    /\ sync_call.pc \in {"synced", "voted"} => sync_call.src_key = sync_call.key
    /\ sync_call.pc = "voted" =>
          (sync_call.is_lane_found <=> sync_call.record_key = sync_call.key)


\* The step is a call of fn on the odometry object, from call to return.
OdometryCall(fn) ==
    /\ odometry'.calls = odometry.calls + 1
    /\ odometry'.last # odometry.last \/ odometry'.last.fn = fn
    /\ odometry'.last.fn = fn
    /\ multiscale' = multiscale

\* The fields of the object that Create and Release manage.
DeviceState(o) == << o.device_, o.width_, o.height_, o.allocations >>

\* C39: Create on a released object allocates the device state and returns
\* true; Create on a created object allocates nothing, returns true when
\* width and height are those of the object and returns false, leaving the
\* state as it is, when they differ; Release sets the device handle to null,
\* so that a later Create allocates again.
CreateReleaseLifecycle ==
    [][/\ OdometryCall("Create") =>
              LET width == odometry'.last.width
                  height == odometry'.last.height
              IN  IF odometry.device_ = "nullptr"
                  THEN /\ odometry'.last.ret
                       /\ DeviceState(odometry') =
                             << "device", width, height, odometry.allocations + 1 >>
                  ELSE /\ DeviceState(odometry') = DeviceState(odometry)
                       /\ odometry'.last.ret <=>
                             (width = odometry.width_ /\ height = odometry.height_)
       /\ OdometryCall("Release") => odometry'.device_ = "nullptr"
       /\ odometry'.allocations # odometry.allocations =>
             (OdometryCall("Create") /\ odometry.device_ = "nullptr")]_vars

\* C39 witness: the object was created, released and created again, and a
\* Create with another size has just been refused.
CreateRefusedAfterRecreate ==
    /\ odometry.allocations = 2
    /\ odometry.device_ = "device"
    /\ odometry.last.fn = "Create"
    /\ ~odometry.last.ret
    /\ << odometry.last.width, odometry.last.height >>
          # << odometry.width_, odometry.height_ >>

\* The calls of DoSingleIteration a ComputeMultiScale without a failure
\* makes, as << level, iter >>: levels listed from `level` down to 0.
RECURSIVE FullSchedule(_)
FullSchedule(level) ==
    IF level < 0 THEN << >>
    ELSE [i \in 1..odometry.option_[(N - 1 - level) + 1] |-> << level, i - 1 >>]
             \o FullSchedule(level - 1)

\* C40: ComputeMultiScale runs the levels from N - 1 down to 0, each for its
\* configured number of iterations; at the first iteration that reports
\* failure it returns success = false and the identity transform and runs no
\* further iteration; when no iteration fails it returns success = true with
\* one loss list per level.
MultiScaleOrder ==
    LET ran == multiscale.iterations
        failed == { j \in 1..Len(ran) : ~ran[j][3] }
    IN  multiscale.pc \in {"running", "returned"} =>
            /\ Len(ran) <= Len(FullSchedule(N - 1))
            /\ \A j \in 1..Len(ran) :
                  << ran[j][1], ran[j][2] >> = FullSchedule(N - 1)[j]
            /\ failed \subseteq {Len(ran)}
            /\ failed # {} =>
                  /\ multiscale.pc = "returned"
                  /\ ~multiscale.is_success
                  /\ multiscale.transform = "Identity"
            /\ (multiscale.pc = "returned" /\ failed = {}) =>
                  /\ multiscale.is_success
                  /\ multiscale.transform = "transform_source_to_target_"
                  /\ Len(ran) = Len(FullSchedule(N - 1))
                  /\ Len(multiscale.losses) = N
                  /\ \A j \in 1..N :
                        Len(multiscale.losses[j]) = odometry.option_[j]

\* C40 witness: a call has gone through the coarsest level and has returned
\* at an iteration of level 0 that reported failure, before the level's last
\* iteration.
AbortedAtFinestLevel ==
    /\ multiscale.pc = "returned"
    /\ ~multiscale.is_success
    /\ Len(multiscale.iterations) >= 2
    /\ multiscale.iterations[Len(multiscale.iterations)][1] = 0
    /\ Len(multiscale.iterations) < Len(FullSchedule(N - 1))

====
